---------------------------- MODULE Spec2Model ----------------------------
(***************************************************************************)
(* A model of the meilisearch-operator: the Server, Index and Key          *)
(* reconcilers, the cluster objects they write (custom resources, secrets, *)
(* service, stateful workload) and the engine's administrative state       *)
(* (indexes, key table).  Every reconcile is a process whose steps are the *)
(* awaited calls of the handler; a step that can fail ends the reconcile   *)
(* with an error.                                                          *)
(***************************************************************************)
EXTENDS Integers, Sequences, FiniteSets, TLC

VARIABLES
    srv,      \* the Server object "demo" in namespace "ns1"
    keys,     \* the Key objects, by name
    idxs,     \* the Index objects, by name
    secrets,  \* the cluster secrets, by location
    svc,      \* the Service applied for the Server
    sts,      \* the StatefulSet applied for the Server
    engine,   \* the engine's administrative state (indexes, key table, health)
    srvRec,   \* the in-flight Server reconcile
    keyRec,   \* the in-flight Key reconciles, by name
    idxRec,   \* the in-flight Index reconciles, by name
    log,      \* history: requests issued and events observed
    mItem,    \* a remote key item handed to the matching functions
    mSpec,    \* a Key spec handed to the matching functions
    mRes,     \* the matching functions' results for (mItem, mSpec)
    eqA,      \* the first slice handed to eq_unordered
    eqB,      \* the second slice handed to eq_unordered
    eqRes,    \* the results of the two copies of eq_unordered for (eqA, eqB)
    hw,       \* a call of wait_meili_healthy_with on its own
    lp,       \* a call of list_all_keys_http on its own
    mr,       \* the mirror secrets of two Servers, on their own
    opNs      \* the operator's namespace (OPERATOR_NAMESPACE)

vars == << srv, keys, idxs, secrets, svc, sts, engine, srvRec, keyRec, idxRec,
           log, mItem, mSpec, mRes, eqA, eqB, eqRes, hw, lp, mr, opNs >>

clusterVars == << srv, keys, idxs, secrets, svc, sts, engine, srvRec, keyRec,
                  idxRec, log >>

\* what no step of a reconcile or of the environment changes: the operator's
\* configuration and the inputs and results of the functions taken on their own
matchVars == << mItem, mSpec, mRes, eqA, eqB, eqRes, hw, lp, mr, opNs >>

-----------------------------------------------------------------------------
(* Option<T>: None is the empty tuple, Some(x) the one-element tuple.       *)

None == << >>

Some(x) == << x >>

IsSome(o) == o # None

Unwrap(o) == o[1]

SeqToSet(s) == { s[i] : i \in DOMAIN s }

-----------------------------------------------------------------------------
(* Pure helpers of key_controller.rs and index_controller.rs.               *)

FINALIZER == "meili.operator.dev/finalizer"

\* the finalizer list never lacks the finalizer: ensure_finalizer would never
\* patch
NeverLacksFinalizer(fin) == TRUE

\* ensure_finalizer's test: finalizers().iter().any(|f| f == FINALIZER)
HasFinalizer(fin) == FINALIZER \in fin

\* RFC3339 texts the model uses and the instant (an integer) each denotes.
\* Two texts with different offsets denote the same instant.
Rfc3339Instant ==
    [ s \in { "2030-01-01T00:00:00Z", "2030-01-01T01:00:00+01:00",
              "2031-06-01T00:00:00Z" } |->
        IF s = "2031-06-01T00:00:00Z" THEN 2 ELSE 1 ]

\* OffsetDateTime::parse(v, Rfc3339).ok() on an Option<String>
parse_rfc3339_opt(s) ==
    IF s = None THEN None
    ELSE IF Unwrap(s) \in DOMAIN Rfc3339Instant
         THEN Some(Rfc3339Instant[Unwrap(s)])
         ELSE None

same_string_opt(a, b) ==
    CASE a # None /\ b # None -> Unwrap(a) = Unwrap(b)
      [] a = None -> TRUE
      [] OTHER -> FALSE

\* a comparison of the two slices element by element, in order
eq_in_order(a, b) == a = b

\* two slices compared as HashSets
eq_unordered(a, b) ==
    LET sa == SeqToSet(a)
        sb == SeqToSet(b)
    IN  sa = sb

normalize_actions(spec_actions) ==
    [ i \in DOMAIN spec_actions |-> spec_actions[i] ]

\* the match on (spec.expires_at, item.expires_at) shared by both matchers
expires_match(se, ie) ==
    CASE se # None /\ ie # None ->
            parse_rfc3339_opt(Some(Unwrap(se))) = parse_rfc3339_opt(Some(Unwrap(ie)))
      [] se # None /\ ie = None -> FALSE
      [] OTHER -> TRUE

matches_spec(item, spec) ==
    IF ~same_string_opt(spec.name, item.name) THEN FALSE
    ELSE IF ~same_string_opt(spec.description, item.description) THEN FALSE
    ELSE IF ~eq_unordered(normalize_actions(spec.actions), item.actions) THEN FALSE
    ELSE IF ~eq_unordered(spec.indexes, item.indexes) THEN FALSE
    ELSE expires_match(spec.expires_at, item.expires_at)

matches_spec_relaxed(item, spec) ==
    IF ~eq_unordered(normalize_actions(spec.actions), item.actions) THEN FALSE
    ELSE IF ~eq_unordered(spec.indexes, item.indexes) THEN FALSE
    ELSE expires_match(spec.expires_at, item.expires_at)

\* format!("{}-admin", uid) and format!("Admin key for index {}", uid), on the
\* index uids of the model
AdminName(uid) ==
    CASE uid = "prod" -> "prod-admin"
      [] uid = "logs" -> "logs-admin"

AdminDesc(uid) ==
    CASE uid = "prod" -> "Admin key for index prod"
      [] uid = "logs" -> "Admin key for index logs"

\* index_controller.rs has its own copy of eq_unordered
index_eq_unordered(a, b) ==
    LET sa == SeqToSet(a)
        sb == SeqToSet(b)
    IN  sa = sb

matches_admin(index_uid, item) ==
    LET expected_name == AdminName(index_uid)
        expected_desc == AdminDesc(index_uid)
        actions_ok == \E i \in DOMAIN item.actions : item.actions[i] = "*"
        indexes_ok == index_eq_unordered(<< index_uid >>, item.indexes)
        name_ok == IF item.name # None THEN Unwrap(item.name) = expected_name ELSE FALSE
        desc_ok == IF item.description # None
                   THEN Unwrap(item.description) = expected_desc ELSE FALSE
    IN  actions_ok /\ indexes_ok /\ name_ok /\ desc_ok

\* Iterator::find over a listing: the first item satisfying P, as an Option
FindFirst(all, P(_)) ==
    LET hits == { i \in DOMAIN all : P(all[i]) }
    IN  IF hits = {} THEN None
        ELSE Some(all[CHOOSE i \in hits : \A j \in hits : i <= j])

-----------------------------------------------------------------------------
(* The cluster: names, namespaces and objects.                              *)

ServerName == "demo"

ServerNs == "ns1"

\* OPERATOR_NAMESPACE, by default
OperatorNs == "meilisearch-operator"

\* a Server name and a namespace other than the Server's
OtherServerName == "other"

OtherNs == "ns2"

\* The Key and Index objects of the cluster. k3 and i3 live in the other
\* namespace, all others in the Server's.
Keys == { "k1", "k2", "k3" }

Idxs == { "i1", "i2", "i3" }

KeyNamespace(k) == IF k = "k3" THEN OtherNs ELSE ServerNs

IdxNamespace(i) == IF i = "i3" THEN OtherNs ELSE ServerNs

\* format!("{}-meili-master", name)
MasterSecretName(name) == name \o "-meili-master"

\* format!("{}-{}-meili-master", ns, name)
MirrorSecretName(ns, name) == ns \o "-" \o name \o "-meili-master"

\* format!("{}-admin-key", uid)
AdminSecretName(uid) ==
    CASE uid = "prod" -> "prod-admin-key"
      [] uid = "logs" -> "logs-admin-key"

MasterLoc == << ServerNs, MasterSecretName(ServerName) >>

\* the mirror lives in the namespace the operator was started with
MirrorLoc == << opNs, MirrorSecretName(ServerNs, ServerName) >>

\* A secret: its data entries and its owner reference, each an Option.
MkSecret(mk, k, owner) == [ masterKey |-> mk, key |-> k, owner |-> owner ]

\* OwnerReference { kind, name, controller: true, block_owner_deletion: true }
OwnerRef(kind, name) ==
    [ kind |-> kind, name |-> name, controller |-> TRUE, block_owner_deletion |-> TRUE ]

\* The Key specs of the model.
KeySpecA ==
    [ server_ref |-> ServerName, name |-> Some("search"), description |-> Some("x"),
      actions |-> << "search" >>, indexes |-> << "*" >>, expires_at |-> None,
      secret_namespace |-> "ns1", secret_name |-> "my-key" ]

KeySpecPool == { KeySpecA }

\* a Key with the same name, description, actions, indexes and expiry, and a
\* secret of its own
KeySpecB == [ KeySpecA EXCEPT !.secret_name = "other-key" ]

\* a Key whose secret goes to another namespace
KeySpecFar == [ KeySpecA EXCEPT !.secret_namespace = "ns2" ]

\* The Index specs of the model.
IdxSpecA ==
    [ server_ref |-> ServerName, uid |-> "prod", primary_key |-> None,
      delete_on_finalize |-> TRUE,
      admin_key |-> Some([ create |-> TRUE, secret_namespace |-> None,
                           secret_name |-> None ]) ]

IdxSpecPool == { IdxSpecA }

\* an Index that is to stay on the engine when the object is deleted
IdxSpecKeep == [ IdxSpecA EXCEPT !.delete_on_finalize = FALSE ]

\* an Index whose admin-key secret goes to another namespace
IdxSpecFar ==
    [ IdxSpecA EXCEPT !.admin_key = Some([ create |-> TRUE,
                                           secret_namespace |-> Some("ns2"),
                                           secret_name |-> None ]) ]

KeyTargetLoc(spec) == << spec.secret_namespace, spec.secret_name >>

\* ak.secret_namespace.unwrap_or(ns), ak.secret_name.unwrap_or("<uid>-admin-key")
IdxTargetLoc(spec) ==
    LET ak == Unwrap(spec.admin_key)
    IN  << IF ak.secret_namespace # None THEN Unwrap(ak.secret_namespace) ELSE ServerNs,
           IF ak.secret_name # None THEN Unwrap(ak.secret_name)
           ELSE AdminSecretName(spec.uid) >>

SecretLocs ==
    { MasterLoc }
        \cup { << ns, MirrorSecretName(ServerNs, ServerName) >> :
                  ns \in { OperatorNs, ServerNs } }
        \cup { << OperatorNs, MirrorSecretName(ServerNs, OtherServerName) >>,
               << OperatorNs, MirrorSecretName(OtherNs, ServerName) >> }
        \cup { KeyTargetLoc(s) : s \in KeySpecPool \cup { KeySpecFar, KeySpecB } }
        \cup { IdxTargetLoc(s) : s \in IdxSpecPool \cup { IdxSpecFar } }

\* KeyStatus::default(), IndexStatus::default(), ServerStatus::default()
KeyStatusDefault == [ uid |-> None, ready |-> FALSE, message |-> None ]

IdxStatusDefault == [ ready |-> FALSE, message |-> None ]

SrvStatusDefault == [ ready |-> FALSE, endpoint |-> None, message |-> None ]

\* An object the user has just created: no finalizers, no status.
FreshObj(spec, status) ==
    [ exists |-> TRUE, del |-> FALSE, fin |-> {}, status |-> status, spec |-> spec ]

\* An object that is gone; the fields are kept in a canonical form.
GoneObj(obj, status) ==
    [ exists |-> FALSE, del |-> FALSE, fin |-> {}, status |-> status, spec |-> obj.spec ]

\* The API server's answer to a merge patch of metadata.finalizers: an object
\* with deletionTimestamp and no finalizer left is removed.
WithFinalizers(obj, finals, status) ==
    IF obj.del /\ finals = {} THEN GoneObj(obj, status)
    ELSE [ obj EXCEPT !.fin = finals ]

\* The API server refuses a patch that adds a finalizer to an object being deleted.
FinalizerPatchAllowed(obj, finals) ==
    obj.exists /\ (obj.del => finals \subseteq obj.fin)

\* The API server's answer to DELETE: removal, or deletionTimestamp when
\* finalizers are left.
Deleted(obj, status) ==
    IF obj.fin = {} THEN GoneObj(obj, status)
    ELSE [ obj EXCEPT !.del = TRUE ]

-----------------------------------------------------------------------------
(* The engine: its indexes and its key table, in listing order.             *)

\* The raw value the engine derives for the key with a given uid.
KeyValue(uid) == 100 + uid

\* Keys that exist on the engine before the operator acts: one that matches
\* KeySpecA on action set, index set and expiry only, one that matches it in
\* every field.
LegacyRelaxed ==
    [ name |-> Some("legacy"), description |-> Some("old"), key |-> KeyValue(1),
      uid |-> 1, actions |-> << "search" >>, indexes |-> << "*" >>,
      expires_at |-> None ]

LegacyExact ==
    [ name |-> Some("search"), description |-> Some("x"), key |-> KeyValue(2),
      uid |-> 2, actions |-> << "search" >>, indexes |-> << "*" >>,
      expires_at |-> None ]

\* Keys of the same kind for the Index with uid "prod": one that matches_admin
\* accepts, one that differs from it by its null name only.
LegacyAdmin ==
    [ name |-> Some("prod-admin"), description |-> Some("Admin key for index prod"),
      key |-> KeyValue(3), uid |-> 3, actions |-> << "*" >>, indexes |-> << "prod" >>,
      expires_at |-> None ]

NearAdmin ==
    [ name |-> None, description |-> Some("Admin key for index prod"),
      key |-> KeyValue(4), uid |-> 4, actions |-> << "*" >>, indexes |-> << "prod" >>,
      expires_at |-> None ]

\* the key tables the engine may hold before a Key is reconciled
LegacyTables == { << >>, << LegacyRelaxed >>, << LegacyRelaxed, LegacyExact >> }

\* the key tables the engine may hold before an Index is reconciled
LegacyAdminTables == { << >>, << NearAdmin, LegacyAdmin >> }

\* the uid the engine gives the first key created through the operator
FirstNewUid == NearAdmin.uid + 1

\* how many keys the engine accepts through POST /keys in one behaviour
MaxCreated == 2

\* MeiliAction, for the action strings of the model
to_meili_action(s) ==
    CASE s = "*" -> [ tag |-> "All" ]
      [] s = "search" -> [ tag |-> "Search" ]
      [] s = "documents.add" -> [ tag |-> "DocumentsAdd" ]
      [] OTHER -> [ tag |-> "Unknown", s |-> s ]

\* the engine's canonical string of a MeiliAction
action_string(a) ==
    CASE a.tag = "All" -> "*"
      [] a.tag = "Search" -> "search"
      [] a.tag = "DocumentsAdd" -> "documents.add"
      [] OTHER -> a.s

\* the engine's RFC3339 text of an instant (UTC)
FormatInstant(n) ==
    CASE n = 1 -> "2030-01-01T00:00:00Z"
      [] n = 2 -> "2031-06-01T00:00:00Z"

KeyValuesOf(all) == { all[i].key : i \in DOMAIN all }

RemoveUid(all, uid) == SelectSeq(all, LAMBDA it : it.uid # uid)

\* The engine lists its keys newest first: a created key goes to the head.
EngineAddKey(e, item) ==
    [ e EXCEPT !.keys = << item >> \o @, !.nextUid = @ + 1 ]

-----------------------------------------------------------------------------
(* The Key reconciler (key_controller.rs).                                  *)

NoCopy == [ del |-> FALSE, fin |-> {}, uid |-> None ]

\* trip, before and after are history: once an observer follows the Key's
\* secret (trip = "first"), the secret's value after the next successful
\* reconcile is recorded, the secret is deleted, and its value after the
\* following successful reconcile is recorded.
KeyRecIdle ==
    [ pc |-> "idle", copy |-> NoCopy, secret_key |-> None, chosen |-> None,
      created |-> None, branch |-> "none", result |-> "none", patched |-> FALSE,
      cleared |-> FALSE, trip |-> "off", before |-> None, after |-> None ]

\* the record of a followed reconcile that returns success, given the value of
\* the target secret's `key` entry
KeyObserved(rec, value) ==
    CASE rec.trip = "first" -> [ rec EXCEPT !.trip = "delete", !.before = value ]
      [] rec.trip = "second" -> [ rec EXCEPT !.trip = "done", !.after = value ]
      [] OTHER -> rec

\* Api::<Server>::get_opt(name) for the serverRef of a child
ServerByName(name) ==
    IF name = ServerName THEN srv
    ELSE [ exists |-> FALSE, del |-> FALSE, fin |-> {}, status |-> SrvStatusDefault,
           spec |-> srv.spec ]

\* a Server that is never seen going away
ServerNeverDeleting(name) == FALSE

server_is_deleting(name) ==
    LET s == ServerByName(name)
    IN  IF s.exists THEN s.del ELSE TRUE

\* a get_master_key that is content with the secret being there
get_master_key_any(server) == secrets[<< ServerNs, MasterSecretName(server) >>] # None

\* get_master_key: Ok only when the secret exists with data holding masterKey
get_master_key_ok(server) ==
    LET sec == secrets[<< ServerNs, MasterSecretName(server) >>]
    IN  sec # None /\ Unwrap(sec).masterKey # None

\* The reconcile returns; the locals are dropped.
KeyReturn(k, res) ==
    keyRec' = [ keyRec EXCEPT ![k] =
                  [ @ EXCEPT !.pc = "idle", !.result = res, !.copy = NoCopy,
                             !.secret_key = None, !.chosen = None, !.created = None,
                             !.patched = FALSE, !.cleared = FALSE ] ]

KeyGoto(k, pc) == keyRec' = [ keyRec EXCEPT ![k].pc = pc ]

\* The controller hands the Key to reconcile (one reconcile in flight per object).
KeyStart(k) ==
    /\ keyRec[k].pc = "idle"
    /\ keys[k].exists
    /\ keyRec' = [ keyRec EXCEPT ![k] =
                     [ KeyRecIdle EXCEPT
                         !.pc = "get_master_key",
                         !.copy = [ del |-> keys[k].del, fin |-> keys[k].fin,
                                    uid |-> keys[k].status.uid ],
                         !.trip = keyRec[k].trip,
                         !.before = keyRec[k].before,
                         !.after = keyRec[k].after ] ]
    /\ UNCHANGED << srv, keys, idxs, secrets, svc, sts, engine, srvRec, idxRec, log >>
    /\ UNCHANGED matchVars

\* line 36: get_master_key(...).await?
KeyGetMasterKey(k) ==
    /\ keyRec[k].pc = "get_master_key"
    /\ IF get_master_key_ok(keys[k].spec.server_ref)
       THEN KeyGoto(k, IF keyRec[k].copy.del THEN "server_is_deleting"
                       ELSE "ensure_finalizer")
       ELSE KeyReturn(k, "error")
    /\ UNCHANGED << srv, keys, idxs, secrets, svc, sts, engine, srvRec, idxRec, log >>
    /\ UNCHANGED matchVars

\* a deletion path that never goes to the engine
KeyDeleteNeverDue(deleting, uid) == FALSE

\* lines 43-44: !server_is_deleting(..) && let Some(uid) = key.status.uid
KeyDeleteDue(deleting, uid) == ~deleting /\ uid # None

\* lines 43-45: server_is_deleting(...).await? && let Some(uid) = status.uid
KeyServerIsDeleting(k) ==
    /\ keyRec[k].pc = "server_is_deleting"
    /\ KeyGoto(k, IF KeyDeleteDue(server_is_deleting(keys[k].spec.server_ref),
                                  keyRec[k].copy.uid)
                  THEN "delete_key" ELSE "remove_finalizer")
    /\ UNCHANGED << srv, keys, idxs, secrets, svc, sts, engine, srvRec, idxRec, log >>
    /\ UNCHANGED matchVars

\* line 46: client.delete_key(uid).await? ; the engine answers not-found for a
\* uid it does not hold
KeyDeleteKey(k) ==
    /\ keyRec[k].pc = "delete_key"
    /\ log' = [ log EXCEPT !.deletes = @ \cup { k } ]
    /\ LET uid == Unwrap(keyRec[k].copy.uid)
       IN  IF \E i \in DOMAIN engine.keys : engine.keys[i].uid = uid
           THEN /\ engine' = [ engine EXCEPT !.keys = RemoveUid(@, uid) ]
                /\ KeyGoto(k, "remove_finalizer")
           ELSE /\ UNCHANGED engine
                /\ KeyReturn(k, "error")
    /\ UNCHANGED << srv, keys, idxs, secrets, svc, sts, srvRec, idxRec >>
    /\ UNCHANGED matchVars

\* lines 48-49: remove_finalizer (merge patch finalizers: null), await_change
KeyRemoveFinalizer(k) ==
    /\ keyRec[k].pc = "remove_finalizer"
    /\ IF keys[k].exists
       THEN /\ keys' = [ keys EXCEPT ![k] = WithFinalizers(@, {}, KeyStatusDefault) ]
            /\ KeyReturn(k, "await")
       ELSE /\ UNCHANGED keys
            /\ KeyReturn(k, "error")
    /\ UNCHANGED << srv, idxs, secrets, svc, sts, engine, srvRec, idxRec, log >>
    /\ UNCHANGED matchVars

\* line 52: ensure_finalizer: no patch when the copy holds the finalizer, else
\* a merge patch of the copy's list with the finalizer pushed
KeyEnsureFinalizer(k) ==
    /\ keyRec[k].pc = "ensure_finalizer"
    /\ IF HasFinalizer(keyRec[k].copy.fin)
       THEN /\ KeyGoto(k, "existing_secret_key")
            /\ UNCHANGED keys
       ELSE LET finals == keyRec[k].copy.fin \cup { FINALIZER }
            IN  IF FinalizerPatchAllowed(keys[k], finals)
                THEN /\ keys' = [ keys EXCEPT ![k].fin = finals ]
                     /\ keyRec' = [ keyRec EXCEPT ![k].pc = "existing_secret_key",
                                                  ![k].patched = TRUE ]
                ELSE /\ UNCHANGED keys
                     /\ KeyReturn(k, "error")
    /\ UNCHANGED << srv, idxs, secrets, svc, sts, engine, srvRec, idxRec, log >>
    /\ UNCHANGED matchVars

\* line 55: existing_secret_key: the target secret's entry "key", if any
KeyExistingSecretKey(k) ==
    /\ keyRec[k].pc = "existing_secret_key"
    /\ LET sec == secrets[KeyTargetLoc(keys[k].spec)]
           v == IF sec = None THEN None ELSE Unwrap(sec).key
       IN  keyRec' = [ keyRec EXCEPT
                         ![k].secret_key = v,
                         ![k].pc = IF v # None THEN "key_exists_by_value"
                                   ELSE "find_matching" ]
    /\ UNCHANGED << srv, keys, idxs, secrets, svc, sts, engine, srvRec, idxRec, log >>
    /\ UNCHANGED matchVars

\* line 56: key_exists_by_value_http: a listing holds the secret's value
KeyExistsByValue(k) ==
    /\ keyRec[k].pc = "key_exists_by_value"
    /\ LET v == Unwrap(keyRec[k].secret_key)
       IN  IF v \in KeyValuesOf(engine.keys)
           THEN keyRec' = [ keyRec EXCEPT ![k].chosen = Some(v),
                                          ![k].branch = "reuse",
                                          ![k].pc = "store" ]
           ELSE KeyGoto(k, "find_matching")
    /\ UNCHANGED << srv, keys, idxs, secrets, svc, sts, engine, srvRec, idxRec, log >>
    /\ UNCHANGED matchVars

\* line 85: find_matching_key_http: the first listed key that matches exactly
KeyFindMatching(k) ==
    /\ keyRec[k].pc = "find_matching"
    /\ LET hit == FindFirst(engine.keys, LAMBDA it : matches_spec(it, keys[k].spec))
       IN  IF hit # None
           THEN keyRec' = [ keyRec EXCEPT ![k].chosen = Some(Unwrap(hit).key),
                                          ![k].branch = "exact",
                                          ![k].pc = "store" ]
           ELSE KeyGoto(k, "find_relaxed")
    /\ UNCHANGED << srv, keys, idxs, secrets, svc, sts, engine, srvRec, idxRec, log >>
    /\ UNCHANGED matchVars

\* line 112: find_relaxed_matching_key_http: the first listed relaxed match
KeyFindRelaxed(k) ==
    /\ keyRec[k].pc = "find_relaxed"
    /\ LET hit == FindFirst(engine.keys,
                            LAMBDA it : matches_spec_relaxed(it, keys[k].spec))
       IN  IF hit # None
           THEN keyRec' = [ keyRec EXCEPT ![k].chosen = Some(Unwrap(hit).key),
                                          ![k].branch = "relaxed",
                                          ![k].pc = "store" ]
           ELSE KeyGoto(k, "create")
    /\ UNCHANGED << srv, keys, idxs, secrets, svc, sts, engine, srvRec, idxRec, log >>
    /\ UNCHANGED matchVars

\* lines 143-188: the KeyBuilder the create branch sends
BuiltKey(k, spec, uid) ==
    LET dt == parse_rfc3339_opt(spec.expires_at)
    IN  [ name |-> Some(IF spec.name # None THEN Unwrap(spec.name) ELSE k),
          description |-> spec.description,
          key |-> KeyValue(uid),
          uid |-> uid,
          actions |-> [ i \in DOMAIN spec.actions |->
                          action_string(to_meili_action(spec.actions[i])) ],
          indexes |-> spec.indexes,
          expires_at |-> IF dt # None THEN Some(FormatInstant(Unwrap(dt))) ELSE None ]

\* a create branch that returns an error when spec.expires_at is not RFC3339
KeyCreateRejectingExpiry(k) ==
    /\ keyRec[k].pc = "create"
    /\ engine.nextUid < FirstNewUid + MaxCreated
    /\ IF keys[k].spec.expires_at # None
           /\ parse_rfc3339_opt(keys[k].spec.expires_at) = None
       THEN /\ KeyReturn(k, "error")
            /\ UNCHANGED engine
       ELSE LET item == BuiltKey(k, keys[k].spec, engine.nextUid)
            IN  /\ engine' = EngineAddKey(engine, item)
                /\ keyRec' = [ keyRec EXCEPT ![k].chosen = Some(item.key),
                                             ![k].created = Some(item.uid),
                                             ![k].branch = "create",
                                             ![k].pc = "store" ]
    /\ UNCHANGED << srv, keys, idxs, secrets, svc, sts, srvRec, idxRec, log >>
    /\ UNCHANGED matchVars

\* line 190: kb.execute(&client).await? (POST /keys)
KeyCreate(k) ==
    /\ keyRec[k].pc = "create"
    /\ engine.nextUid < FirstNewUid + MaxCreated
    /\ LET item == BuiltKey(k, keys[k].spec, engine.nextUid)
       IN  /\ engine' = EngineAddKey(engine, item)
           /\ keyRec' = [ keyRec EXCEPT ![k].chosen = Some(item.key),
                                        ![k].created = Some(item.uid),
                                        ![k].branch = "create",
                                        ![k].pc = "store" ]
    /\ UNCHANGED << srv, keys, idxs, secrets, svc, sts, srvRec, idxRec, log >>
    /\ UNCHANGED matchVars

\* store_key_secret: the secret sent to create; the owner reference only when
\* the target namespace is the Key's
KeySecretToCreate(k, owner_ns, target_ns, key) ==
    MkSecret(None, Some(key),
             IF owner_ns = target_ns THEN Some(OwnerRef("Key", k)) ELSE None)

\* store_key_secret: secrets.create, a 409 conflict taken as success
KeyStore(k) ==
    /\ keyRec[k].pc = "store"
    /\ LET loc == KeyTargetLoc(keys[k].spec)
       IN  IF secrets[loc] # None
           THEN UNCHANGED secrets
           ELSE secrets' = [ secrets EXCEPT ![loc] =
                    Some(KeySecretToCreate(k, ServerNs, keys[k].spec.secret_namespace,
                                           Unwrap(keyRec[k].chosen))) ]
    /\ KeyGoto(k, "patch_status")
    /\ UNCHANGED << srv, keys, idxs, svc, sts, engine, srvRec, idxRec, log >>
    /\ UNCHANGED matchVars

\* a status that carries no message on any branch
KeyStatusWithoutMessage(branch, created) ==
    [ uid |-> IF branch = "create" THEN created ELSE None,
      ready |-> TRUE,
      message |-> None ]

\* the status each branch patches
KeyStatusOf(branch, created) ==
    [ uid |-> IF branch = "create" THEN created ELSE None,
      ready |-> TRUE,
      message |-> CASE branch = "reuse" -> Some("using key from existing Secret")
                    [] branch = "exact" -> Some("adopted existing key")
                    [] branch = "relaxed" -> Some("adopted similar existing key")
                    [] OTHER -> None ]

\* patch_status (merge patch of the whole status), then requeue after 1200 s
KeyPatchStatus(k) ==
    /\ keyRec[k].pc = "patch_status"
    /\ IF keys[k].exists
       THEN /\ keys' = [ keys EXCEPT ![k].status =
                           KeyStatusOf(keyRec[k].branch, keyRec[k].created) ]
            /\ LET sec == secrets[KeyTargetLoc(keys[k].spec)]
                   value == IF sec = None THEN None ELSE Unwrap(sec).key
               IN  keyRec' = [ keyRec EXCEPT ![k] =
                                 KeyObserved([ @ EXCEPT !.pc = "idle",
                                                        !.result = "requeue1200",
                                                        !.copy = NoCopy,
                                                        !.secret_key = None,
                                                        !.chosen = None,
                                                        !.created = None,
                                                        !.patched = FALSE,
                                                        !.cleared = FALSE ],
                                             value) ]
       ELSE /\ UNCHANGED keys
            /\ KeyReturn(k, "error")
    /\ UNCHANGED << srv, idxs, secrets, svc, sts, engine, srvRec, idxRec, log >>
    /\ UNCHANGED matchVars

\* a reconcile that reports the error of a call in the Key's status
KeyCallFailsReporting(k) ==
    /\ keyRec[k].pc \notin { "idle" }
    /\ keyRec[k].pc = "ensure_finalizer" => ~HasFinalizer(keyRec[k].copy.fin)
    /\ KeyReturn(k, "error")
    /\ keys' = [ keys EXCEPT ![k].status =
                  IF keys[k].exists
                  THEN [ uid |-> @.uid, ready |-> FALSE, message |-> Some("error") ]
                  ELSE @ ]
    /\ UNCHANGED << srv, idxs, secrets, svc, sts, engine, srvRec, idxRec, log >>
    /\ UNCHANGED matchVars

\* Any awaited call of the reconcile answers with an error (cluster API or
\* engine): the `?` returns it and the error policy requeues after 60 s.
KeyCallFails(k) ==
    /\ keyRec[k].pc \notin { "idle" }
    /\ keyRec[k].pc = "ensure_finalizer" => ~HasFinalizer(keyRec[k].copy.fin)
    /\ KeyReturn(k, "error")
    /\ UNCHANGED << srv, keys, idxs, secrets, svc, sts, engine, srvRec, idxRec, log >>
    /\ UNCHANGED matchVars

-----------------------------------------------------------------------------
(* The Index reconciler (index_controller.rs).                              *)

IdxNoCopy == [ del |-> FALSE, fin |-> {} ]

\* if let Some(ak) = &idx.spec.admin_key && ak.create
WantsAdminKey(spec) ==
    spec.admin_key # None /\ Unwrap(spec.admin_key).create

\* watch, first and second are history: once an observer watches the Index
\* (watch = "first"), the states after its next two successful reconciles are
\* recorded.
IdxRecIdle ==
    [ pc |-> "idle", copy |-> IdxNoCopy, chosen |-> None, branch |-> "none",
      task |-> "none", result |-> "none", patched |-> FALSE, cleared |-> FALSE,
      watch |-> "off", first |-> None, second |-> None ]

\* what an observer of the Index sees: its finalizers and status, the
\* admin-key secret, the engine's index set and key table
IdxView(obj, sec, eng) ==
    [ fin |-> obj.fin, status |-> obj.status,
      secret |-> IF WantsAdminKey(obj.spec) THEN sec[IdxTargetLoc(obj.spec)] ELSE None,
      indexes |-> eng.indexes, keys |-> eng.keys ]

\* the record of a watched reconcile that returns success with the given view
IdxObserved(rec, view) ==
    CASE rec.watch = "first" -> [ rec EXCEPT !.watch = "second", !.first = Some(view) ]
      [] rec.watch = "second" -> [ rec EXCEPT !.watch = "done", !.second = Some(view) ]
      [] OTHER -> rec

\* no watched pair of reconciles is under way: the environment moves only then
Quiet ==
    /\ \A i \in Idxs : idxRec[i].watch \notin { "first", "second" }
    /\ \A k \in Keys : keyRec[k].trip \notin { "first", "delete", "second" }

IdxReturn(i, res) ==
    idxRec' = [ idxRec EXCEPT ![i] =
                  [ @ EXCEPT !.pc = "idle", !.result = res, !.copy = IdxNoCopy,
                             !.chosen = None, !.task = "none", !.patched = FALSE,
                             !.cleared = FALSE ] ]

IdxGoto(i, pc) == idxRec' = [ idxRec EXCEPT ![i].pc = pc ]

IdxStart(i) ==
    /\ idxRec[i].pc = "idle"
    /\ idxs[i].exists
    /\ idxRec' = [ idxRec EXCEPT ![i] =
                     [ IdxRecIdle EXCEPT
                         !.pc = IF idxs[i].del THEN "server_is_deleting"
                                ELSE "ensure_finalizer",
                         !.copy = [ del |-> idxs[i].del, fin |-> idxs[i].fin ],
                         !.watch = idxRec[i].watch,
                         !.first = idxRec[i].first,
                         !.second = idxRec[i].second ] ]
    /\ UNCHANGED << srv, keys, idxs, secrets, svc, sts, engine, srvRec, keyRec, log >>
    /\ UNCHANGED matchVars

\* a deletion path that does not look at deleteOnFinalize
IdxDeleteIgnoresFlag(deleting, delete_on_finalize) == ~deleting

\* lines 39-40: !server_is_deleting(..) && idx.spec.delete_on_finalize
IdxDeleteDue(deleting, delete_on_finalize) == ~deleting /\ delete_on_finalize

\* lines 39-40: !server_is_deleting(...).await? && idx.spec.delete_on_finalize
IdxServerIsDeleting(i) ==
    /\ idxRec[i].pc = "server_is_deleting"
    /\ IdxGoto(i, IF IdxDeleteDue(server_is_deleting(idxs[i].spec.server_ref),
                                  idxs[i].spec.delete_on_finalize)
                  THEN "del_get_master_key" ELSE "remove_finalizer")
    /\ UNCHANGED << srv, keys, idxs, secrets, svc, sts, engine, srvRec, keyRec, log >>
    /\ UNCHANGED matchVars

\* line 43: get_master_key(...).await? on the deletion path
IdxDelGetMasterKey(i) ==
    /\ idxRec[i].pc = "del_get_master_key"
    /\ IF get_master_key_ok(idxs[i].spec.server_ref)
       THEN IdxGoto(i, "delete_index")
       ELSE IdxReturn(i, "error")
    /\ UNCHANGED << srv, keys, idxs, secrets, svc, sts, engine, srvRec, keyRec, log >>
    /\ UNCHANGED matchVars

\* line 45: client.delete_index(uid).await? (DELETE /indexes/{uid}): the engine
\* accepts the task and drops the index if it holds it
IdxDeleteIndex(i) ==
    /\ idxRec[i].pc = "delete_index"
    /\ log' = [ log EXCEPT !.deletes = @ \cup { i } ]
    /\ engine' = [ engine EXCEPT !.indexes = @ \ { idxs[i].spec.uid } ]
    /\ IdxGoto(i, "wait_delete")
    /\ UNCHANGED << srv, keys, idxs, secrets, svc, sts, srvRec, keyRec >>
    /\ UNCHANGED matchVars

\* line 46: task.wait_for_completion(...).await?
IdxWaitDelete(i) ==
    /\ idxRec[i].pc = "wait_delete"
    /\ IdxGoto(i, "remove_finalizer")
    /\ UNCHANGED << srv, keys, idxs, secrets, svc, sts, engine, srvRec, keyRec, log >>
    /\ UNCHANGED matchVars

\* lines 48-49: remove_finalizer, await_change
IdxRemoveFinalizer(i) ==
    /\ idxRec[i].pc = "remove_finalizer"
    /\ IF idxs[i].exists
       THEN /\ idxs' = [ idxs EXCEPT ![i] = WithFinalizers(@, {}, IdxStatusDefault) ]
            /\ IdxReturn(i, "await")
       ELSE /\ UNCHANGED idxs
            /\ IdxReturn(i, "error")
    /\ UNCHANGED << srv, keys, secrets, svc, sts, engine, srvRec, keyRec, log >>
    /\ UNCHANGED matchVars

\* line 52: ensure_finalizer
IdxEnsureFinalizer(i) ==
    /\ idxRec[i].pc = "ensure_finalizer"
    /\ IF HasFinalizer(idxRec[i].copy.fin)
       THEN /\ IdxGoto(i, "get_master_key")
            /\ UNCHANGED idxs
       ELSE LET finals == idxRec[i].copy.fin \cup { FINALIZER }
            IN  IF FinalizerPatchAllowed(idxs[i], finals)
                THEN /\ idxs' = [ idxs EXCEPT ![i].fin = finals ]
                     /\ idxRec' = [ idxRec EXCEPT ![i].pc = "get_master_key",
                                                  ![i].patched = TRUE ]
                ELSE /\ UNCHANGED idxs
                     /\ IdxReturn(i, "error")
    /\ UNCHANGED << srv, keys, secrets, svc, sts, engine, srvRec, keyRec, log >>
    /\ UNCHANGED matchVars

\* line 55: get_master_key(...).await?
IdxGetMasterKey(i) ==
    /\ idxRec[i].pc = "get_master_key"
    /\ IF get_master_key_ok(idxs[i].spec.server_ref)
       THEN IdxGoto(i, "create_index")
       ELSE IdxReturn(i, "error")
    /\ UNCHANGED << srv, keys, idxs, secrets, svc, sts, engine, srvRec, keyRec, log >>
    /\ UNCHANGED matchVars

\* lines 59-61: client.create_index(uid, primary_key).await? (POST /indexes):
\* the engine accepts the task; the task fails when the index exists, and
\* while the engine fails index tasks for a reason of its own
IdxCreateIndex(i) ==
    /\ idxRec[i].pc = "create_index"
    /\ IF idxs[i].spec.uid \in engine.indexes
       THEN /\ UNCHANGED engine
            /\ idxRec' = [ idxRec EXCEPT ![i].pc = "wait_create",
                                         ![i].task = "index_already_exists" ]
       ELSE IF engine.indexTasksFail
            THEN /\ UNCHANGED engine
                 /\ idxRec' = [ idxRec EXCEPT ![i].pc = "wait_create",
                                              ![i].task = "failed" ]
            ELSE /\ engine' = [ engine EXCEPT !.indexes = @ \cup { idxs[i].spec.uid } ]
                 /\ idxRec' = [ idxRec EXCEPT ![i].pc = "wait_create",
                                              ![i].task = "succeeded" ]
    /\ UNCHANGED << srv, keys, idxs, secrets, svc, sts, srvRec, keyRec, log >>
    /\ UNCHANGED matchVars

\* line 62: let _ = task.wait_for_completion(...).await? : the finished task
\* is dropped, whatever its status
IdxWaitCreate(i) ==
    /\ idxRec[i].pc = "wait_create"
    /\ IdxGoto(i, IF WantsAdminKey(idxs[i].spec) THEN "find_admin" ELSE "patch_status")
    /\ UNCHANGED << srv, keys, idxs, secrets, svc, sts, engine, srvRec, keyRec, log >>
    /\ UNCHANGED matchVars

\* lines 69-70: find_matching_admin_key_http
IdxFindAdmin(i) ==
    /\ idxRec[i].pc = "find_admin"
    /\ LET hit == FindFirst(engine.keys,
                            LAMBDA it : matches_admin(idxs[i].spec.uid, it))
       IN  IF hit # None
           THEN idxRec' = [ idxRec EXCEPT ![i].chosen = Some(Unwrap(hit).key),
                                          ![i].branch = "adopt",
                                          ![i].pc = "store" ]
           ELSE IdxGoto(i, "create_key")
    /\ UNCHANGED << srv, keys, idxs, secrets, svc, sts, engine, srvRec, keyRec, log >>
    /\ UNCHANGED matchVars

\* lines 89-93: the admin key the create branch sends
BuiltAdminKey(index_uid, uid) ==
    [ name |-> Some(AdminName(index_uid)),
      description |-> Some(AdminDesc(index_uid)),
      key |-> KeyValue(uid),
      uid |-> uid,
      actions |-> << action_string([ tag |-> "All" ]) >>,
      indexes |-> << index_uid >>,
      expires_at |-> None ]

\* line 94: kb.execute(&client).await? (POST /keys)
IdxCreateKey(i) ==
    /\ idxRec[i].pc = "create_key"
    /\ engine.nextUid < FirstNewUid + MaxCreated
    /\ LET item == BuiltAdminKey(idxs[i].spec.uid, engine.nextUid)
       IN  /\ engine' = EngineAddKey(engine, item)
           /\ idxRec' = [ idxRec EXCEPT ![i].chosen = Some(item.key),
                                        ![i].branch = "create",
                                        ![i].pc = "store" ]
    /\ UNCHANGED << srv, keys, idxs, secrets, svc, sts, srvRec, keyRec, log >>
    /\ UNCHANGED matchVars

\* store_index_key_secret: the secret sent to create
IdxSecretToCreate(i, owner_ns, target_ns, key) ==
    MkSecret(None, Some(key),
             IF owner_ns = target_ns THEN Some(OwnerRef("Index", i)) ELSE None)

\* store_index_key_secret: secrets.create, a 409 conflict taken as success
IdxStore(i) ==
    /\ idxRec[i].pc = "store"
    /\ LET loc == IdxTargetLoc(idxs[i].spec)
       IN  IF secrets[loc] # None
           THEN UNCHANGED secrets
           ELSE secrets' = [ secrets EXCEPT ![loc] =
                    Some(IdxSecretToCreate(i, ServerNs, loc[1],
                                           Unwrap(idxRec[i].chosen))) ]
    /\ IdxGoto(i, "patch_status")
    /\ UNCHANGED << srv, keys, idxs, svc, sts, engine, srvRec, keyRec, log >>
    /\ UNCHANGED matchVars

\* lines 115-118: the status patched
IdxStatusOf(branch) ==
    [ ready |-> TRUE,
      message |-> IF branch = "adopt" THEN Some("adopted existing admin key")
                  ELSE None ]

\* lines 119-129: patch_status, then requeue after 600 s
IdxPatchStatus(i) ==
    /\ idxRec[i].pc = "patch_status"
    /\ IF idxs[i].exists
       THEN /\ idxs' = [ idxs EXCEPT ![i].status = IdxStatusOf(idxRec[i].branch) ]
            /\ idxRec' = [ idxRec EXCEPT ![i] =
                             IdxObserved([ @ EXCEPT !.pc = "idle",
                                                    !.result = "requeue600",
                                                    !.copy = IdxNoCopy,
                                                    !.chosen = None,
                                                    !.task = "none",
                                                    !.patched = FALSE,
                                                    !.cleared = FALSE ],
                                         IdxView(idxs'[i], secrets, engine)) ]
       ELSE /\ UNCHANGED idxs
            /\ IdxReturn(i, "error")
    /\ UNCHANGED << srv, keys, secrets, svc, sts, engine, srvRec, keyRec, log >>
    /\ UNCHANGED matchVars

\* Any awaited call of the reconcile answers with an error: the error policy
\* requeues after 60 s.
IdxCallFails(i) ==
    /\ idxRec[i].pc \notin { "idle" }
    /\ idxRec[i].pc = "ensure_finalizer" => ~HasFinalizer(idxRec[i].copy.fin)
    /\ IdxReturn(i, "error")
    /\ UNCHANGED << srv, keys, idxs, secrets, svc, sts, engine, srvRec, keyRec, log >>
    /\ UNCHANGED matchVars

-----------------------------------------------------------------------------
(* The Server reconciler (server_controller.rs).                            *)

\* crds/server.rs: default_port, default_replicas
DefaultPort == 7700

DefaultReplicas == 1

ServerSpecA ==
    [ image |-> None, replicas |-> DefaultReplicas, storage |-> Some("1Gi"),
      service_type |-> "ClusterIP", port |-> DefaultPort ]

\* a Server with a port and a number of replicas of its own
ServerSpecB == [ ServerSpecA EXCEPT !.port = DefaultPort + 1, !.replicas = DefaultReplicas + 1 ]

\* the length of a generated master key: .take(64)
MasterKeyLen == 64

\* how many distinct random keys the generator may draw in the model
MaxGen == 2

\* rand::thread_rng().sample_iter(&Alphanumeric).take(64): the g-th draw
GeneratedKey(g) == [ id |-> g, len |-> MasterKeyLen, alnum |-> TRUE ]

\* wait_meili_healthy: wait_meili_healthy_with(.., 2 s, 120); the model takes a
\* small number of attempts for the 120
MaxAttempts == 2

\* format!("http://{}.{}.svc.cluster.local:{}", name, ns, port)
Endpoint(name, ns, port) == [ host |-> << name, ns, "svc.cluster.local" >>, port |-> port ]

SrvNoCopy == [ del |-> FALSE, fin |-> {} ]

\* probe2xx is history: a health probe of this reconcile answered 2xx
SrvRecIdle ==
    [ pc |-> "idle", copy |-> SrvNoCopy, mk |-> None, attempts |-> 0,
      todo |-> << >>, result |-> "none", patched |-> FALSE, probe2xx |-> FALSE ]

SrvReturn(res) ==
    srvRec' = [ srvRec EXCEPT !.pc = "idle", !.result = res, !.copy = SrvNoCopy,
                              !.mk = None, !.attempts = 0, !.todo = << >>,
                              !.patched = FALSE, !.probe2xx = FALSE ]

\* what GET /health may answer: a status, a transport error, the 1 s timeout
ProbeAnswers == { "2xx", "503", "error", "timeout" }

\* if let Ok(r) = res && r.status().is_success()
ProbeOk(answer) == answer = "2xx"

\* a wait that takes every probe for a success
wait_turn_trusting(attempts, max_attempts, ok) ==
    [ attempts |-> attempts + 1, outcome |-> "ok" ]

\* wait_meili_healthy_with, one turn of the loop (lines 439-451): count the
\* attempt, probe; a success returns Ok; otherwise give up when
\* attempts > max_attempts, else sleep and loop
wait_turn(attempts, max_attempts, ok) ==
    [ attempts |-> attempts + 1,
      outcome |-> IF ok THEN "ok"
                  ELSE IF attempts + 1 > max_attempts THEN "err" ELSE "sleep" ]

SrvGoto(pc) == srvRec' = [ srvRec EXCEPT !.pc = pc ]

\* a finite set of names as a sequence: the order of a listing
RECURSIVE SetToSeq(_)
SetToSeq(S) ==
    IF S = {} THEN << >>
    ELSE LET m == CHOOSE x \in S : TRUE
         IN  << m >> \o SetToSeq(S \ { m })

SrvStart ==
    /\ srvRec.pc = "idle"
    /\ srv.exists
    /\ srvRec' = [ SrvRecIdle EXCEPT
                     !.pc = IF srv.del THEN "list_keys" ELSE "ensure_finalizer",
                     !.copy = [ del |-> srv.del, fin |-> srv.fin ] ]
    /\ UNCHANGED << srv, keys, idxs, secrets, svc, sts, engine, keyRec, idxRec, log >>
    /\ UNCHANGED matchVars

\* a filter that keeps every object of the namespace
in_namespace_only(obj_ns, server_ref, ns, server_name) == obj_ns = ns

\* Api::namespaced(client, ns) .list() .filter(|k| k.spec.server_ref ==
\* server_name): the objects of the Server's namespace that refer to it
references_server(obj_ns, server_ref, ns, server_name) ==
    obj_ns = ns /\ server_ref = server_name

\* lines 121-126: list the Keys of the namespace, keep those with
\* spec.server_ref == server_name
SrvListKeys ==
    /\ srvRec.pc = "list_keys"
    /\ LET mine == { k \in Keys :
                      /\ keys[k].exists
                      /\ references_server(KeyNamespace(k), keys[k].spec.server_ref,
                                           ServerNs, ServerName) }
       IN  srvRec' = [ srvRec EXCEPT !.todo = SetToSeq(mine),
                                     !.pc = IF mine = {} THEN "list_idxs" ELSE "key_patch" ]
    /\ UNCHANGED << srv, keys, idxs, secrets, svc, sts, engine, keyRec, idxRec, log >>
    /\ UNCHANGED matchVars

\* remove_finals_and_delete on a Key, lines 103-109: the merge patch
\* finalizers: null; Ok and 404 go on to the delete, any other error returns
\* it (and the caller drops it: let _ = ...)
SrvKeyPatch ==
    /\ srvRec.pc = "key_patch"
    /\ LET k == Head(srvRec.todo)
           rest == Tail(srvRec.todo)
       IN  \E answer \in { "ok", "error" } :
              IF answer = "error"
              THEN /\ srvRec' = [ srvRec EXCEPT
                                    !.todo = rest,
                                    !.pc = IF rest = << >> THEN "list_idxs"
                                           ELSE "key_patch" ]
                   /\ UNCHANGED << keys, keyRec >>
              ELSE /\ SrvGoto("key_delete")
                   /\ IF keys[k].exists
                      THEN /\ keys' = [ keys EXCEPT ![k] =
                                          WithFinalizers(@, {}, KeyStatusDefault) ]
                           /\ keyRec' = [ keyRec EXCEPT ![k].cleared =
                                            @ \/ keyRec[k].pc # "idle" ]
                      ELSE UNCHANGED << keys, keyRec >>
    /\ UNCHANGED << srv, idxs, secrets, svc, sts, engine, idxRec, log >>
    /\ UNCHANGED matchVars

\* remove_finals_and_delete on a Key, lines 110-116: the delete; every answer
\* is dropped by the caller
SrvKeyDelete ==
    /\ srvRec.pc = "key_delete"
    /\ LET k == Head(srvRec.todo)
           rest == Tail(srvRec.todo)
       IN  /\ \E answer \in { "ok", "error" } :
                 IF answer = "ok" /\ keys[k].exists
                 THEN keys' = [ keys EXCEPT ![k] = Deleted(@, KeyStatusDefault) ]
                 ELSE UNCHANGED keys
           /\ srvRec' = [ srvRec EXCEPT
                            !.todo = rest,
                            !.pc = IF rest = << >> THEN "list_idxs" ELSE "key_patch" ]
    /\ UNCHANGED << srv, idxs, secrets, svc, sts, engine, keyRec, idxRec, log >>
    /\ UNCHANGED matchVars

\* lines 136-141: list the Indexes, keep those referencing the Server
SrvListIdxs ==
    /\ srvRec.pc = "list_idxs"
    /\ LET mine == { i \in Idxs :
                      /\ idxs[i].exists
                      /\ references_server(IdxNamespace(i), idxs[i].spec.server_ref,
                                           ServerNs, ServerName) }
       IN  srvRec' = [ srvRec EXCEPT
                         !.todo = SetToSeq(mine),
                         !.pc = IF mine = {} THEN "delete_operator_copy"
                                ELSE "idx_patch" ]
    /\ UNCHANGED << srv, keys, idxs, secrets, svc, sts, engine, keyRec, idxRec, log >>
    /\ UNCHANGED matchVars

\* remove_finals_and_delete on an Index: the merge patch
SrvIdxPatch ==
    /\ srvRec.pc = "idx_patch"
    /\ LET i == Head(srvRec.todo)
           rest == Tail(srvRec.todo)
       IN  \E answer \in { "ok", "error" } :
              IF answer = "error"
              THEN /\ srvRec' = [ srvRec EXCEPT
                                    !.todo = rest,
                                    !.pc = IF rest = << >> THEN "delete_operator_copy"
                                           ELSE "idx_patch" ]
                   /\ UNCHANGED << idxs, idxRec >>
              ELSE /\ SrvGoto("idx_delete")
                   /\ IF idxs[i].exists
                      THEN /\ idxs' = [ idxs EXCEPT ![i] =
                                          WithFinalizers(@, {}, IdxStatusDefault) ]
                           /\ idxRec' = [ idxRec EXCEPT ![i].cleared =
                                            @ \/ idxRec[i].pc # "idle" ]
                      ELSE UNCHANGED << idxs, idxRec >>
    /\ UNCHANGED << srv, keys, secrets, svc, sts, engine, keyRec, log >>
    /\ UNCHANGED matchVars

\* remove_finals_and_delete on an Index: the delete
SrvIdxDelete ==
    /\ srvRec.pc = "idx_delete"
    /\ LET i == Head(srvRec.todo)
           rest == Tail(srvRec.todo)
       IN  /\ \E answer \in { "ok", "error" } :
                 IF answer = "ok" /\ idxs[i].exists
                 THEN idxs' = [ idxs EXCEPT ![i] = Deleted(@, IdxStatusDefault) ]
                 ELSE UNCHANGED idxs
           /\ srvRec' = [ srvRec EXCEPT
                            !.todo = rest,
                            !.pc = IF rest = << >> THEN "delete_operator_copy"
                                   ELSE "idx_patch" ]
    /\ UNCHANGED << srv, keys, secrets, svc, sts, engine, keyRec, idxRec, log >>
    /\ UNCHANGED matchVars

\* the mirror's delete left out: the reconcile goes on to clear the finalizer
SrvDeleteOperatorCopySkipped ==
    /\ srvRec.pc = "delete_operator_copy"
    /\ SrvGoto("remove_finalizer")
    /\ UNCHANGED << srv, keys, idxs, secrets, svc, sts, engine, keyRec, idxRec, log >>
    /\ UNCHANGED matchVars

\* line 46: delete_operator_copy: delete the mirror, a 404 is Ok
SrvDeleteOperatorCopy ==
    /\ srvRec.pc = "delete_operator_copy"
    /\ secrets' = [ secrets EXCEPT ![MirrorLoc] = None ]
    /\ SrvGoto("remove_finalizer")
    /\ UNCHANGED << srv, keys, idxs, svc, sts, engine, keyRec, idxRec, log >>
    /\ UNCHANGED matchVars

\* lines 48-49: remove_finalizer (merge patch finalizers: null), await_change
SrvRemoveFinalizer ==
    /\ srvRec.pc = "remove_finalizer"
    /\ IF srv.exists
       THEN /\ srv' = WithFinalizers(srv, {}, SrvStatusDefault)
            /\ SrvReturn("await")
       ELSE /\ UNCHANGED srv
            /\ SrvReturn("error")
    /\ UNCHANGED << keys, idxs, secrets, svc, sts, engine, keyRec, idxRec, log >>
    /\ UNCHANGED matchVars

\* line 53: ensure_finalizer: no patch when the copy holds the finalizer, else
\* a merge patch finalizers: [FINALIZER]
SrvEnsureFinalizer ==
    /\ srvRec.pc = "ensure_finalizer"
    /\ IF HasFinalizer(srvRec.copy.fin)
       THEN /\ SrvGoto("mk_get")
            /\ UNCHANGED srv
       ELSE IF FinalizerPatchAllowed(srv, { FINALIZER })
            THEN /\ srv' = [ srv EXCEPT !.fin = { FINALIZER } ]
                 /\ srvRec' = [ srvRec EXCEPT !.pc = "mk_get", !.patched = TRUE ]
            ELSE /\ UNCHANGED srv
                 /\ SrvReturn("error")
    /\ UNCHANGED << keys, idxs, secrets, svc, sts, engine, keyRec, idxRec, log >>
    /\ UNCHANGED matchVars

\* an ensure_master_key_secret that never looks at what is stored
SrvMasterKeyGetIgnoringStored ==
    /\ srvRec.pc = "mk_get"
    /\ SrvGoto("mk_create")
    /\ UNCHANGED << srv, keys, idxs, secrets, svc, sts, engine, keyRec, idxRec, log >>
    /\ UNCHANGED matchVars

\* ensure_master_key_secret, lines 164-169: the stored value when the secret
\* exists with data holding masterKey
SrvMasterKeyGet ==
    /\ srvRec.pc = "mk_get"
    /\ LET sec == secrets[MasterLoc]
       IN  IF sec # None /\ Unwrap(sec).masterKey # None
           THEN srvRec' = [ srvRec EXCEPT !.mk = Unwrap(sec).masterKey,
                                          !.pc = "operator_copy" ]
           ELSE SrvGoto("mk_create")
    /\ UNCHANGED << srv, keys, idxs, secrets, svc, sts, engine, keyRec, idxRec, log >>
    /\ UNCHANGED matchVars

\* ensure_master_key_secret, lines 170-192: generate a key and create the
\* secret; Ok and a 409 conflict both return the generated key
SrvMasterKeyCreate ==
    /\ srvRec.pc = "mk_create"
    /\ \E g \in 1 .. MaxGen :
          LET key == GeneratedKey(g)
          IN  /\ IF secrets[MasterLoc] # None
                 THEN UNCHANGED secrets
                 ELSE secrets' = [ secrets EXCEPT ![MasterLoc] =
                          Some(MkSecret(Some(key), None,
                                        Some(OwnerRef("Server", ServerName)))) ]
              /\ srvRec' = [ srvRec EXCEPT !.mk = Some(key), !.pc = "operator_copy" ]
    /\ UNCHANGED << srv, keys, idxs, svc, sts, engine, keyRec, idxRec, log >>
    /\ UNCHANGED matchVars

\* ensure_operator_copy: server-side apply (force) of the mirror secret with
\* masterKey = key and no owner reference
SrvEnsureOperatorCopy ==
    /\ srvRec.pc = "operator_copy"
    /\ secrets' = [ secrets EXCEPT ![MirrorLoc] =
                      IF @ = None THEN Some(MkSecret(srvRec.mk, None, None))
                      ELSE Some([ Unwrap(@) EXCEPT !.masterKey = srvRec.mk ]) ]
    /\ SrvGoto("service")
    /\ UNCHANGED << srv, keys, idxs, svc, sts, engine, keyRec, idxRec, log >>
    /\ UNCHANGED matchVars

\* build_service
\* a service that always exposes the default port
build_service_default_port(name, port) ==
    [ name |-> name, selector |-> name, port |-> DefaultPort, target_port |-> DefaultPort,
      owner |-> OwnerRef("Server", name) ]

build_service(name, port) ==
    [ name |-> name, selector |-> name, port |-> port, target_port |-> port,
      owner |-> OwnerRef("Server", name) ]

\* ensure_service: server-side apply (force)
SrvEnsureService ==
    /\ srvRec.pc = "service"
    /\ svc' = Some(build_service(ServerName, srv.spec.port))
    /\ SrvGoto("statefulset")
    /\ UNCHANGED << srv, keys, idxs, secrets, sts, engine, keyRec, idxRec, log >>
    /\ UNCHANGED matchVars

\* build_statefulset: the fields the model follows
build_statefulset(name, spec) ==
    [ name |-> name, replicas |-> spec.replicas, port |-> spec.port,
      master_key_secret |-> MasterSecretName(name),
      has_storage |-> spec.storage # None,
      owner |-> OwnerRef("Server", name) ]

\* ensure_statefulset: server-side apply (force)
SrvEnsureStatefulset ==
    /\ srvRec.pc = "statefulset"
    /\ sts' = Some(build_statefulset(ServerName, srv.spec))
    /\ SrvGoto("health")
    /\ UNCHANGED << srv, keys, idxs, secrets, svc, engine, keyRec, idxRec, log >>
    /\ UNCHANGED matchVars

\* wait_meili_healthy_with, one turn of the loop: count the attempt, probe
\* GET /health; a 2xx returns Ok; otherwise give up when attempts > max_attempts,
\* else sleep and loop
SrvHealthProbe ==
    /\ srvRec.pc = "health"
    /\ \E healthy \in BOOLEAN :
          LET t == wait_turn(srvRec.attempts, MaxAttempts, healthy)
          IN  CASE t.outcome = "ok" ->
                     srvRec' = [ srvRec EXCEPT !.attempts = t.attempts,
                                               !.probe2xx = healthy,
                                               !.pc = "patch_status" ]
                [] t.outcome = "err" -> SrvReturn("error")
                [] OTHER -> srvRec' = [ srvRec EXCEPT !.attempts = t.attempts ]
    /\ UNCHANGED << srv, keys, idxs, secrets, svc, sts, engine, keyRec, idxRec, log >>
    /\ UNCHANGED matchVars

\* lines 73-88: patch_status, then requeue after 300 s
SrvPatchStatus ==
    /\ srvRec.pc = "patch_status"
    /\ IF srv.exists
       THEN /\ srv' = [ srv EXCEPT !.status =
                          [ ready |-> TRUE,
                            endpoint |-> Some(Endpoint(ServerName, ServerNs,
                                                       srv.spec.port)),
                            message |-> None ] ]
            /\ SrvReturn("requeue300")
       ELSE /\ UNCHANGED srv
            /\ SrvReturn("error")
    /\ UNCHANGED << keys, idxs, secrets, svc, sts, engine, keyRec, idxRec, log >>
    /\ UNCHANGED matchVars

\* An awaited cluster API call of the reconcile answers with an error that the
\* handler returns: the error policy requeues after 30 s.  The answers of the
\* child patch and delete are dropped and the health probe's failure is an
\* answer of its own.
SrvCallFails ==
    /\ srvRec.pc \notin { "idle", "key_patch", "key_delete", "idx_patch",
                          "idx_delete", "health" }
    /\ srvRec.pc = "ensure_finalizer" => ~HasFinalizer(srvRec.copy.fin)
    /\ SrvReturn("error")
    /\ UNCHANGED << srv, keys, idxs, secrets, svc, sts, engine, keyRec, idxRec, log >>
    /\ UNCHANGED matchVars

-----------------------------------------------------------------------------
(* What the controller runtime does with the outcome of a reconcile.        *)

\* Action::requeue(Duration::from_secs(secs)), Action::await_change()
RequeueAfter(secs) == [ requeue_after |-> Some(secs) ]

AwaitChange == [ requeue_after |-> None ]

\* error_policy of the three controllers
server_error_policy == RequeueAfter(30)

index_error_policy == RequeueAfter(60)

\* the Key controller with the Server controller's error delay
key_error_policy_of_server == RequeueAfter(30)

key_error_policy == RequeueAfter(60)

\* The Action that follows a reconcile: the one it returned with Ok, or the
\* error policy's when it returned Err.
SrvActionOf(result) ==
    CASE result = "requeue300" -> RequeueAfter(300)
      [] result = "await" -> AwaitChange
      [] result = "error" -> server_error_policy

IdxActionOf(result) ==
    CASE result = "requeue600" -> RequeueAfter(600)
      [] result = "await" -> AwaitChange
      [] result = "error" -> index_error_policy

KeyActionOf(result) ==
    CASE result = "requeue1200" -> RequeueAfter(1200)
      [] result = "await" -> AwaitChange
      [] result = "error" -> key_error_policy

-----------------------------------------------------------------------------
(* The environment: the user, the garbage collector, other engine clients.  *)

\* kubectl delete server demo
UserDeleteServer ==
    /\ Quiet
    /\ srv.exists /\ ~srv.del
    /\ srv' = Deleted(srv, SrvStatusDefault)
    /\ UNCHANGED << keys, idxs, secrets, svc, sts, engine, srvRec, keyRec, idxRec, log >>
    /\ UNCHANGED matchVars

\* kubectl delete key k
UserDeleteKey(k) ==
    /\ Quiet
    /\ keys[k].exists /\ ~keys[k].del
    /\ keys' = [ keys EXCEPT ![k] = Deleted(@, KeyStatusDefault) ]
    /\ log' = [ log EXCEPT !.userDeleted = @ \cup { k } ]
    /\ UNCHANGED << srv, idxs, secrets, svc, sts, engine, srvRec, keyRec, idxRec >>
    /\ UNCHANGED matchVars

\* kubectl delete index i
UserDeleteIndex(i) ==
    /\ Quiet
    /\ idxs[i].exists /\ ~idxs[i].del
    /\ idxs' = [ idxs EXCEPT ![i] = Deleted(@, IdxStatusDefault) ]
    /\ log' = [ log EXCEPT !.userDeleted = @ \cup { i } ]
    /\ UNCHANGED << srv, keys, secrets, svc, sts, engine, srvRec, keyRec, idxRec >>
    /\ UNCHANGED matchVars

\* Another client of the engine deletes a key (the key table is shared).
ExtDeleteEngineKey ==
    /\ Quiet
    /\ \E n \in DOMAIN engine.keys :
          engine' = [ engine EXCEPT !.keys = RemoveUid(@, engine.keys[n].uid) ]
    /\ UNCHANGED << srv, keys, idxs, secrets, svc, sts, srvRec, keyRec, idxRec, log >>
    /\ UNCHANGED matchVars

\* Another client of the engine creates a key with the profile of
\* LegacyExact (POST /keys with its own credentials).
ExtCreateEngineKey ==
    /\ Quiet
    /\ engine.nextUid < FirstNewUid + MaxCreated
    /\ engine' = EngineAddKey(engine,
                     [ LegacyExact EXCEPT !.uid = engine.nextUid,
                                          !.key = KeyValue(engine.nextUid) ])
    /\ UNCHANGED << srv, keys, idxs, secrets, svc, sts, srvRec, keyRec, idxRec, log >>
    /\ UNCHANGED matchVars

\* The engine starts or stops failing index tasks (an invalid primary key
\* setting, a full disk and its clean-up).
EngineTaskHealthChanges ==
    /\ Quiet
    /\ engine' = [ engine EXCEPT !.indexTasksFail = ~@ ]
    /\ UNCHANGED << srv, keys, idxs, secrets, svc, sts, srvRec, keyRec, idxRec, log >>
    /\ UNCHANGED matchVars

\* whether the object an owner reference names still exists
OwnerExists(ref) ==
    CASE ref.kind = "Server" -> srv.exists
      [] ref.kind = "Key" -> keys[ref.name].exists
      [] ref.kind = "Index" -> idxs[ref.name].exists

\* The garbage collector removes a secret whose owner is gone.
GarbageCollect(loc) ==
    /\ Quiet
    /\ secrets[loc] # None
    /\ Unwrap(secrets[loc]).owner # None
    /\ ~OwnerExists(Unwrap(Unwrap(secrets[loc]).owner))
    /\ secrets' = [ secrets EXCEPT ![loc] = None ]
    /\ UNCHANGED << srv, keys, idxs, svc, sts, engine, srvRec, keyRec, idxRec, log >>
    /\ UNCHANGED matchVars

-----------------------------------------------------------------------------
(* The whole operator, from freshly created objects.                        *)

\* A secret at the master-key location that holds no masterKey entry.
SecretWithoutMasterKey == MkSecret(None, None, None)

\* wait_meili_healthy_with not called
HwIdle == [ pc |-> "idle", max_attempts |-> 0, attempts |-> 0, answers |-> << >>,
            sleeps |-> 0 ]

\* no Server's mirror looked at
MrIdle == [ a |-> << "", "" >>, b |-> << "", "" >>, store |-> << >>, op |-> "none",
            by |-> << "", "" >> ]

\* list_all_keys_http not called
LpIdle == [ pc |-> "idle", copy |-> "key", limit |-> 0, table |-> << >>, offset |-> 0,
            out |-> << >>, reqs |-> << >>, pages |-> << >>, result |-> None ]

InitEqIdle ==
    /\ eqA = << >>
    /\ eqB = << >>
    /\ eqRes = [ key |-> None, index |-> None ]

\* the functions taken on their own are not exercised; the operator runs in
\* the namespace ns
InitIdleIn(ns) ==
    /\ mItem = LegacyExact
    /\ mSpec = KeySpecA
    /\ mRes = [ exact |-> None, relaxed |-> None ]
    /\ InitEqIdle
    /\ hw = HwIdle
    /\ lp = LpIdle
    /\ mr = MrIdle
    /\ opNs = ns

InitMatchIdle == InitIdleIn(OperatorNs)

\* The Server after its first successful reconcile, with the g-th generated
\* master key: finalizer attached, status ready.
ReadyServer ==
    [ FreshObj(ServerSpecA, SrvStatusDefault) EXCEPT
        !.fin = { FINALIZER },
        !.status = [ ready |-> TRUE,
                     endpoint |-> Some(Endpoint(ServerName, ServerNs, ServerSpecA.port)),
                     message |-> None ] ]

\* The secrets after the Server's first successful reconcile.
ReadySecrets(g) ==
    [ loc \in SecretLocs |->
        CASE loc = MasterLoc ->
               Some(MkSecret(Some(GeneratedKey(g)), None,
                             Some(OwnerRef("Server", ServerName))))
          [] loc = MirrorLoc -> Some(MkSecret(Some(GeneratedKey(g)), None, None))
          [] OTHER -> None ]

\* An object the user has not created.
AbsentObj(spec, status) == GoneObj(FreshObj(spec, status), status)

\* A freshly created Server and nothing else; the user may have put a secret
\* without a masterKey entry at the master-key location.
InitServerIn(ns) ==
    /\ InitIdleIn(ns)
    /\ srv = FreshObj(ServerSpecA, SrvStatusDefault)
    /\ keys = [ k \in Keys |-> AbsentObj(KeySpecA, KeyStatusDefault) ]
    /\ idxs = [ i \in Idxs |-> AbsentObj(IdxSpecA, IdxStatusDefault) ]
    /\ \E m \in { None, Some(SecretWithoutMasterKey) } :
          secrets = [ loc \in SecretLocs |-> IF loc = MasterLoc THEN m ELSE None ]
    /\ svc = None
    /\ sts = None
    /\ engine = [ indexes |-> {}, keys |-> << >>, nextUid |-> FirstNewUid,
                    indexTasksFail |-> FALSE ]
    /\ srvRec = SrvRecIdle
    /\ keyRec = [ k \in Keys |-> KeyRecIdle ]
    /\ idxRec = [ i \in Idxs |-> IdxRecIdle ]
    /\ log = [ deletes |-> {}, userDeleted |-> {} ]

\* the operator in its default namespace
InitServerOnly == InitServerIn(OperatorNs)

\* The cluster around a reconciled Server (deletionTimestamp set when the
\* user has deleted it), given the children and the engine.
InitAround(deleting, ks, is, sec, eng) ==
    /\ InitMatchIdle
    /\ srv = [ ReadyServer EXCEPT !.del = deleting ]
    /\ keys = ks
    /\ idxs = is
    /\ secrets = sec
    /\ svc = Some(build_service(ServerName, ServerSpecA.port))
    /\ sts = Some(build_statefulset(ServerName, ServerSpecA))
    /\ engine = eng
    /\ srvRec = SrvRecIdle
    /\ keyRec = [ k \in Keys |-> KeyRecIdle ]
    /\ idxRec = [ i \in Idxs |-> IdxRecIdle ]

NoKeys == [ k \in Keys |-> AbsentObj(KeySpecA, KeyStatusDefault) ]

NoIdxs == [ i \in Idxs |-> AbsentObj(IdxSpecA, IdxStatusDefault) ]

\* the Indexes of a cluster that has the given Index "i1" and no other
OneIdx(obj) ==
    [ i \in Idxs |-> IF i = "i1" THEN obj ELSE AbsentObj(IdxSpecA, IdxStatusDefault) ]

\* the Keys of a cluster that has the given Key "k1" and no other
OneKey(obj) ==
    [ k \in Keys |-> IF k = "k1" THEN obj ELSE AbsentObj(KeySpecA, KeyStatusDefault) ]

EmptyLog == [ deletes |-> {}, userDeleted |-> {} ]

\* A reconciled Server and a freshly created Key; the engine holds one of
\* the legacy key tables.
InitFreshKey(deleting, tables) ==
    /\ \E sp \in KeySpecPool, t \in tables :
          InitAround(deleting, OneKey(FreshObj(sp, KeyStatusDefault)), NoIdxs,
                     ReadySecrets(1),
                     [ indexes |-> {}, keys |-> t, nextUid |-> FirstNewUid,
                    indexTasksFail |-> FALSE ])
    /\ log = EmptyLog

\* A reconciled Server and a freshly created Index.
InitFreshIdx(deleting, tables) ==
    /\ \E sp \in IdxSpecPool, t \in tables :
          InitAround(deleting, NoKeys, OneIdx(FreshObj(sp, IdxStatusDefault)),
                     ReadySecrets(1),
                     [ indexes |-> {}, keys |-> t, nextUid |-> FirstNewUid,
                    indexTasksFail |-> FALSE ])
    /\ log = EmptyLog

\* A reconciled Server and a Key that was reconciled through the create
\* branch on an empty key table and that the user has then deleted.
InitDeletedKey ==
    /\ InitAround(FALSE,
                  OneKey([ FreshObj(KeySpecA, KeyStatusDefault) EXCEPT
                             !.del = TRUE, !.fin = { FINALIZER },
                             !.status = KeyStatusOf("create", Some(FirstNewUid)) ]),
                  NoIdxs,
                  [ ReadySecrets(1) EXCEPT ![KeyTargetLoc(KeySpecA)] =
                      Some(KeySecretToCreate("k1", ServerNs, KeySpecA.secret_namespace,
                                             KeyValue(FirstNewUid))) ],
                  [ indexes |-> {},
                    keys |-> << BuiltKey("k1", KeySpecA, FirstNewUid) >>,
                    nextUid |-> FirstNewUid + 1,
                    indexTasksFail |-> FALSE ])
    /\ log = [ deletes |-> {}, userDeleted |-> { "k1" } ]

\* A reconciled Server and an Index that was reconciled (index and admin key
\* created) and that the user has then deleted.
InitDeletedIdx ==
    /\ InitAround(FALSE,
                  NoKeys,
                  OneIdx([ FreshObj(IdxSpecA, IdxStatusDefault) EXCEPT
                            !.del = TRUE, !.fin = { FINALIZER },
                            !.status = IdxStatusOf("create") ]),
                  [ ReadySecrets(1) EXCEPT ![IdxTargetLoc(IdxSpecA)] =
                      Some(IdxSecretToCreate("i1", ServerNs, ServerNs,
                                             KeyValue(FirstNewUid))) ],
                  [ indexes |-> { IdxSpecA.uid },
                    keys |-> << BuiltAdminKey(IdxSpecA.uid, FirstNewUid) >>,
                    nextUid |-> FirstNewUid + 1,
                    indexTasksFail |-> FALSE ])
    /\ log = [ deletes |-> {}, userDeleted |-> { "i1" } ]

\* The Server's life and the deletion cascade: a Server alone; a Server the
\* user has deleted, with a fresh child; a live Server with a child the user
\* has deleted.  Under a Server that is going away the engine starts with an
\* empty key table.
Init ==
    \/ InitServerOnly
    \/ InitFreshKey(TRUE, { << >> })
    \/ InitFreshIdx(TRUE, { << >> })
    \/ InitDeletedKey
    \/ InitDeletedIdx

KeyNext ==
    \E k \in Keys :
        \/ KeyStart(k) \/ KeyGetMasterKey(k) \/ KeyServerIsDeleting(k)
        \/ KeyDeleteKey(k) \/ KeyRemoveFinalizer(k) \/ KeyEnsureFinalizer(k)
        \/ KeyExistingSecretKey(k) \/ KeyExistsByValue(k) \/ KeyFindMatching(k)
        \/ KeyFindRelaxed(k) \/ KeyCreate(k) \/ KeyStore(k) \/ KeyPatchStatus(k)
        \/ KeyCallFails(k)

IdxNext ==
    \E i \in Idxs :
        \/ IdxStart(i) \/ IdxServerIsDeleting(i) \/ IdxDelGetMasterKey(i)
        \/ IdxDeleteIndex(i) \/ IdxWaitDelete(i) \/ IdxRemoveFinalizer(i)
        \/ IdxEnsureFinalizer(i) \/ IdxGetMasterKey(i) \/ IdxCreateIndex(i)
        \/ IdxWaitCreate(i) \/ IdxFindAdmin(i) \/ IdxCreateKey(i) \/ IdxStore(i)
        \/ IdxPatchStatus(i) \/ IdxCallFails(i)

SrvLiveNext ==
    \/ SrvStart \/ SrvEnsureFinalizer \/ SrvMasterKeyGet \/ SrvMasterKeyCreate
    \/ SrvEnsureOperatorCopy \/ SrvEnsureService \/ SrvEnsureStatefulset
    \/ SrvHealthProbe \/ SrvPatchStatus \/ SrvCallFails

SrvDeleteNext ==
    \/ SrvListKeys \/ SrvKeyPatch \/ SrvKeyDelete \/ SrvListIdxs \/ SrvIdxPatch
    \/ SrvIdxDelete \/ SrvDeleteOperatorCopy \/ SrvRemoveFinalizer

EnvNext ==
    \/ UserDeleteServer
    \/ \E k \in Keys : UserDeleteKey(k)
    \/ \E i \in Idxs : UserDeleteIndex(i)
    \/ ExtDeleteEngineKey
    \/ EngineTaskHealthChanges
    \/ \E loc \in SecretLocs : GarbageCollect(loc)

Next == KeyNext \/ IdxNext \/ SrvLiveNext \/ SrvDeleteNext \/ EnvNext

Spec == Init /\ [][Next]_vars

\* A live, reconciled Server and one Key: the Key reconciler with the user
\* and the other clients of the engine.
InitKey == InitFreshKey(FALSE, LegacyTables)

NextKey ==
    \/ KeyNext
    \/ \E k \in Keys : UserDeleteKey(k)
    \/ ExtDeleteEngineKey
    \/ \E loc \in SecretLocs : GarbageCollect(loc)

SpecKey == InitKey /\ [][NextKey]_vars

\* A live, reconciled Server and one Index.
InitIdx == InitFreshIdx(FALSE, LegacyAdminTables)

NextIdx ==
    \/ IdxNext
    \/ \E i \in Idxs : UserDeleteIndex(i)
    \/ ExtDeleteEngineKey
    \/ EngineTaskHealthChanges
    \/ \E loc \in SecretLocs : GarbageCollect(loc)

SpecIdx == InitIdx /\ [][NextIdx]_vars

\* An observer starts to watch a Ready Index between two reconciles.
IdxWatch(i) ==
    /\ idxRec[i].pc = "idle"
    /\ idxRec[i].watch = "off"
    /\ idxs[i].exists
    /\ ~idxs[i].del
    /\ idxs[i].status.ready
    /\ idxRec' = [ idxRec EXCEPT ![i].watch = "first" ]
    /\ UNCHANGED << srv, keys, idxs, secrets, svc, sts, engine, srvRec, keyRec, log >>
    /\ UNCHANGED matchVars

\* The Index as in SpecIdx, watched from some moment on: from then until the
\* second successful reconcile only the Index reconciler moves.
NextIdem == NextIdx \/ \E i \in Idxs : IdxWatch(i)

SpecIdem == InitIdx /\ [][NextIdem]_vars

\* An observer starts to follow the secret of a live Key between two
\* reconciles.
KeyWatch(k) ==
    /\ keyRec[k].pc = "idle"
    /\ keyRec[k].trip = "off"
    /\ keys[k].exists
    /\ ~keys[k].del
    /\ keyRec' = [ keyRec EXCEPT ![k].trip = "first" ]
    /\ UNCHANGED << srv, keys, idxs, secrets, svc, sts, engine, srvRec, idxRec, log >>
    /\ UNCHANGED matchVars

\* kubectl delete secret: the followed Key's target secret is deleted after
\* the Key's successful reconcile.
SecretDeleted(k) ==
    /\ keyRec[k].pc = "idle"
    /\ keyRec[k].trip = "delete"
    /\ secrets[KeyTargetLoc(keys[k].spec)] # None
    /\ secrets' = [ secrets EXCEPT ![KeyTargetLoc(keys[k].spec)] = None ]
    /\ keyRec' = [ keyRec EXCEPT ![k].trip = "second" ]
    /\ UNCHANGED << srv, keys, idxs, svc, sts, engine, srvRec, idxRec, log >>
    /\ UNCHANGED matchVars

\* The Key as in SpecKey, with other clients creating keys as well, and its
\* secret followed from some moment on: from then on only the Key reconciler
\* and the deletion of the secret move.
NextTrip ==
    \/ NextKey
    \/ ExtCreateEngineKey
    \/ \E k \in Keys : KeyWatch(k)
    \/ \E k \in Keys : SecretDeleted(k)

SpecTrip == InitKey /\ [][NextTrip]_vars

\* A secret that someone else has put at a target location: a value no engine
\* key has, no owner reference.
ForeignSecret == MkSecret(None, Some(KeyValue(0)), None)

\* A reconciled Server and a fresh Key whose secret goes to the Key's own or
\* to another namespace, where a secret of that name may exist already.
InitOwnKey ==
    /\ \E sp \in { KeySpecA, KeySpecFar }, pre \in { None, Some(ForeignSecret) } :
          InitAround(FALSE, OneKey(FreshObj(sp, KeyStatusDefault)), NoIdxs,
                     [ ReadySecrets(1) EXCEPT ![KeyTargetLoc(sp)] = pre ],
                     [ indexes |-> {}, keys |-> << >>, nextUid |-> FirstNewUid,
                       indexTasksFail |-> FALSE ])
    /\ log = EmptyLog

\* The same for a fresh Index with an admin key.
InitOwnIdx ==
    /\ \E sp \in { IdxSpecA, IdxSpecFar }, pre \in { None, Some(ForeignSecret) } :
          InitAround(FALSE, NoKeys, OneIdx(FreshObj(sp, IdxStatusDefault)),
                     [ ReadySecrets(1) EXCEPT ![IdxTargetLoc(sp)] = pre ],
                     [ indexes |-> {}, keys |-> << >>, nextUid |-> FirstNewUid,
                       indexTasksFail |-> FALSE ])
    /\ log = EmptyLog

\* The operator started in its default namespace or in the Server's, with a
\* fresh Server; or in its default namespace with a fresh Key or Index.
InitOwn ==
    \/ \E ns \in { OperatorNs, ServerNs } : InitServerIn(ns)
    \/ InitOwnKey
    \/ InitOwnIdx

\* The three reconcilers over live objects, the user deleting a Key or an
\* Index, and the garbage collector.
NextOwn ==
    \/ SrvLiveNext
    \/ KeyNext
    \/ IdxNext
    \/ \E k \in Keys : UserDeleteKey(k)
    \/ \E i \in Idxs : UserDeleteIndex(i)
    \/ \E loc \in SecretLocs : GarbageCollect(loc)

SpecOwn == InitOwn /\ [][NextOwn]_vars

\* A Key under a Server that the user may delete: the Key reconciler, the
\* Server reconciler with its cascade over the Keys, the user and the other
\* clients of the engine.
NextKeyDel ==
    \/ NextKey
    \/ SrvLiveNext
    \/ SrvListKeys \/ SrvKeyPatch \/ SrvKeyDelete
    \/ SrvListIdxs \/ SrvDeleteOperatorCopy \/ SrvRemoveFinalizer
    \/ UserDeleteServer

InitKeyDel == InitKey \/ InitServerOnly

SpecKeyDel == InitKeyDel /\ [][NextKeyDel]_vars

\* An Index, with deleteOnFinalize true or false, under a Server that the
\* user may delete: the Index reconciler, the Server reconciler with its
\* cascade over the Indexes, the user and the garbage collector.
InitIdxDel ==
    \/ /\ \E sp \in { IdxSpecA, IdxSpecKeep } :
             InitAround(FALSE, NoKeys,
                        OneIdx(FreshObj(sp, IdxStatusDefault)),
                        ReadySecrets(1),
                        [ indexes |-> {}, keys |-> << >>, nextUid |-> FirstNewUid,
                          indexTasksFail |-> FALSE ])
       /\ log = EmptyLog
    \/ InitServerOnly

NextIdxDel ==
    \/ IdxNext
    \/ \E i \in Idxs : UserDeleteIndex(i)
    \/ EngineTaskHealthChanges
    \/ \E loc \in SecretLocs : GarbageCollect(loc)
    \/ SrvLiveNext
    \/ SrvListKeys
    \/ SrvListIdxs \/ SrvIdxPatch \/ SrvIdxDelete
    \/ SrvDeleteOperatorCopy \/ SrvRemoveFinalizer
    \/ UserDeleteServer

SpecIdxDel == InitIdxDel /\ [][NextIdxDel]_vars

\* Two fresh Keys that declare the same key profile, on an engine without
\* keys: their reconciles interleave, and the user may delete either Key.
InitRace ==
    /\ InitAround(FALSE,
                  [ OneKey(FreshObj(KeySpecA, KeyStatusDefault)) EXCEPT
                      !["k2"] = FreshObj(KeySpecB, KeyStatusDefault) ],
                  NoIdxs, ReadySecrets(1),
                  [ indexes |-> {}, keys |-> << >>, nextUid |-> FirstNewUid,
                    indexTasksFail |-> FALSE ])
    /\ log = EmptyLog

NextRace ==
    \/ KeyNext
    \/ \E k \in Keys : UserDeleteKey(k)

SpecRace == InitRace /\ [][NextRace]_vars

\* A Key or an Index created together with its Server: the master-key secret
\* is not there yet, or the user has put a secret without a masterKey entry in
\* its place; the reconcilers run and the user may delete the Key or Index.
InitNoMaster ==
    /\ InitMatchIdle
    /\ srv = FreshObj(ServerSpecA, SrvStatusDefault)
    /\ \/ /\ keys = OneKey(FreshObj(KeySpecA, KeyStatusDefault))
          /\ idxs = NoIdxs
       \/ /\ keys = NoKeys
          /\ idxs = OneIdx(FreshObj(IdxSpecA, IdxStatusDefault))
    /\ \E m \in { None, Some(SecretWithoutMasterKey) } :
          secrets = [ loc \in SecretLocs |-> IF loc = MasterLoc THEN m ELSE None ]
    /\ svc = None
    /\ sts = None
    /\ engine = [ indexes |-> {}, keys |-> << >>, nextUid |-> FirstNewUid,
                  indexTasksFail |-> FALSE ]
    /\ srvRec = SrvRecIdle
    /\ keyRec = [ k \in Keys |-> KeyRecIdle ]
    /\ idxRec = [ i \in Idxs |-> IdxRecIdle ]
    /\ log = EmptyLog

NextNoMaster ==
    \/ KeyNext
    \/ IdxNext
    \/ SrvLiveNext
    \/ \E k \in Keys : UserDeleteKey(k)
    \/ \E i \in Idxs : UserDeleteIndex(i)

SpecNoMaster == InitNoMaster /\ [][NextNoMaster]_vars

\* A Server alone, from its creation to its removal: with no children the
\* cascade lists nothing and goes on to the mirror secret.
NextSrv ==
    \/ SrvLiveNext
    \/ SrvListKeys \/ SrvListIdxs \/ SrvDeleteOperatorCopy \/ SrvRemoveFinalizer
    \/ UserDeleteServer
    \/ \E loc \in SecretLocs : GarbageCollect(loc)

SpecSrv == InitServerOnly /\ [][NextSrv]_vars

\* The three reconcilers, each through all its ways out: a Key on the legacy
\* key tables, an Index, or a Server from its creation; the Server is
\* reconciled next to its Key or Index, and the user deletes a Key, an Index,
\* or a Server that has no children left.
InitRequeue == InitKey \/ InitIdx \/ InitServerOnly

UserDeleteLoneServer ==
    /\ \A k \in Keys : ~keys[k].exists
    /\ \A i \in Idxs : ~idxs[i].exists
    /\ UserDeleteServer

NextRequeue ==
    \/ NextKey
    \/ NextIdx
    \/ SrvLiveNext
    \/ SrvListKeys \/ SrvListIdxs \/ SrvDeleteOperatorCopy \/ SrvRemoveFinalizer
    \/ UserDeleteLoneServer

SpecRequeue == InitRequeue /\ [][NextRequeue]_vars

\* A Server alone, created with the default port and replicas or with its own.
InitHappy ==
    /\ InitMatchIdle
    /\ \E sp \in { ServerSpecA, ServerSpecB } : srv = FreshObj(sp, SrvStatusDefault)
    /\ keys = NoKeys
    /\ idxs = NoIdxs
    /\ \E m \in { None, Some(SecretWithoutMasterKey) } :
          secrets = [ loc \in SecretLocs |-> IF loc = MasterLoc THEN m ELSE None ]
    /\ svc = None
    /\ sts = None
    /\ engine = [ indexes |-> {}, keys |-> << >>, nextUid |-> FirstNewUid,
                  indexTasksFail |-> FALSE ]
    /\ srvRec = SrvRecIdle
    /\ keyRec = [ k \in Keys |-> KeyRecIdle ]
    /\ idxRec = [ i \in Idxs |-> IdxRecIdle ]
    /\ log = EmptyLog

SpecHappy == InitHappy /\ [][NextSrv]_vars

\* The matching functions on their own: a remote key item and a Key spec are
\* drawn from pools; each function is applied once and its result recorded.
\* KeyItem.expires_at and KeySpec.expires_at are plain Option<String>, so the
\* pools hold texts that are no RFC3339 timestamps as well.
MatchNames == { None, Some("search"), Some("other") }

MatchDescs == { None, Some("x") }

MatchActions ==
    { << "search" >>, << "search", "documents.add" >>,
      << "documents.add", "search", "search" >> }

MatchIndexes == { << "*" >>, << "a", "*" >> }

MatchExpiries ==
    { None, Some("2030-01-01T00:00:00Z"), Some("2030-01-01T01:00:00+01:00"),
      Some("2031-06-01T00:00:00Z"), Some("not-a-date"), Some("tomorrow") }

MatchItems ==
    { [ name |-> n, description |-> d, key |-> KeyValue(1), uid |-> 1,
        actions |-> a, indexes |-> x, expires_at |-> e ] :
        n \in MatchNames, d \in MatchDescs, a \in MatchActions,
        x \in MatchIndexes, e \in MatchExpiries }

MatchSpecs ==
    { [ KeySpecA EXCEPT !.name = n, !.description = d, !.actions = a,
                        !.indexes = x, !.expires_at = e ] :
        n \in MatchNames, d \in MatchDescs, a \in MatchActions,
        x \in MatchIndexes, e \in MatchExpiries }

InitMatch ==
    /\ opNs = OperatorNs
    /\ srv = ReadyServer
    /\ keys = NoKeys
    /\ idxs = NoIdxs
    /\ secrets = ReadySecrets(1)
    /\ svc = Some(build_service(ServerName, ServerSpecA.port))
    /\ sts = Some(build_statefulset(ServerName, ServerSpecA))
    /\ engine = [ indexes |-> {}, keys |-> << >>, nextUid |-> FirstNewUid,
                    indexTasksFail |-> FALSE ]
    /\ srvRec = SrvRecIdle
    /\ keyRec = [ k \in Keys |-> KeyRecIdle ]
    /\ idxRec = [ i \in Idxs |-> IdxRecIdle ]
    /\ log = EmptyLog
    /\ mItem \in MatchItems
    /\ mSpec \in MatchSpecs
    /\ mRes = [ exact |-> None, relaxed |-> None ]
    /\ InitEqIdle
    /\ hw = HwIdle
    /\ lp = LpIdle
    /\ mr = MrIdle

\* find_matching_key_http's predicate applied to the pair
ApplyMatchesSpec ==
    /\ mRes.exact = None
    /\ mRes' = [ mRes EXCEPT !.exact = Some(matches_spec(mItem, mSpec)) ]
    /\ UNCHANGED << mItem, mSpec, eqA, eqB, eqRes, hw, lp, mr, opNs >>
    /\ UNCHANGED clusterVars

\* find_relaxed_matching_key_http's predicate applied to the pair
ApplyMatchesSpecRelaxed ==
    /\ mRes.relaxed = None
    /\ mRes' = [ mRes EXCEPT !.relaxed = Some(matches_spec_relaxed(mItem, mSpec)) ]
    /\ UNCHANGED << mItem, mSpec, eqA, eqB, eqRes, hw, lp, mr, opNs >>
    /\ UNCHANGED clusterVars

NextMatch == ApplyMatchesSpec \/ ApplyMatchesSpecRelaxed

SpecMatch == InitMatch /\ [][NextMatch]_vars

\* eq_unordered on its own: two slices are drawn from the sequences of at
\* most MaxLen elements and each copy of the function is applied once.
MaxLen == 3

EqElems == { 1, 2, 3 }

RECURSIVE SeqsUpTo(_)
SeqsUpTo(n) ==
    IF n = 0 THEN { << >> }
    ELSE SeqsUpTo(n - 1) \cup [ 1 .. n -> EqElems ]

\* the cluster at rest around a reconciled Server with no children
IdleCluster ==
    /\ srv = ReadyServer
    /\ keys = NoKeys
    /\ idxs = NoIdxs
    /\ secrets = ReadySecrets(1)
    /\ svc = Some(build_service(ServerName, ServerSpecA.port))
    /\ sts = Some(build_statefulset(ServerName, ServerSpecA))
    /\ engine = [ indexes |-> {}, keys |-> << >>, nextUid |-> FirstNewUid,
                    indexTasksFail |-> FALSE ]
    /\ srvRec = SrvRecIdle
    /\ keyRec = [ k \in Keys |-> KeyRecIdle ]
    /\ idxRec = [ i \in Idxs |-> IdxRecIdle ]
    /\ log = EmptyLog

InitEq ==
    /\ opNs = OperatorNs
    /\ IdleCluster
    /\ mItem = LegacyExact
    /\ mSpec = KeySpecA
    /\ mRes = [ exact |-> None, relaxed |-> None ]
    /\ eqA \in SeqsUpTo(MaxLen)
    /\ eqB \in SeqsUpTo(MaxLen)
    /\ eqRes = [ key |-> None, index |-> None ]
    /\ hw = HwIdle
    /\ lp = LpIdle
    /\ mr = MrIdle

\* key_controller.rs: eq_unordered applied to the pair
ApplyEqUnordered ==
    /\ eqRes.key = None
    /\ eqRes' = [ eqRes EXCEPT !.key = Some(eq_unordered(eqA, eqB)) ]
    /\ UNCHANGED << mItem, mSpec, mRes, eqA, eqB, hw, lp, mr, opNs >>
    /\ UNCHANGED clusterVars

\* index_controller.rs: eq_unordered applied to the pair
ApplyIndexEqUnordered ==
    /\ eqRes.index = None
    /\ eqRes' = [ eqRes EXCEPT !.index = Some(index_eq_unordered(eqA, eqB)) ]
    /\ UNCHANGED << mItem, mSpec, mRes, eqA, eqB, hw, lp, mr, opNs >>
    /\ UNCHANGED clusterVars

NextEq == ApplyEqUnordered \/ ApplyIndexEqUnordered

SpecEq == InitEq /\ [][NextEq]_vars

\* wait_meili_healthy_with on its own: a call with max_attempts between 1
\* and MaxWaitAttempts; every probe gets one of the answers.
MaxWaitAttempts == 3

InitWait ==
    /\ opNs = OperatorNs
    /\ IdleCluster
    /\ mItem = LegacyExact
    /\ mSpec = KeySpecA
    /\ mRes = [ exact |-> None, relaxed |-> None ]
    /\ InitEqIdle
    /\ \E m \in 1 .. MaxWaitAttempts :
          hw = [ HwIdle EXCEPT !.pc = "probe", !.max_attempts = m ]
    /\ lp = LpIdle
    /\ mr = MrIdle

\* lines 439-450: attempts += 1, GET /health, return or go on to the sleep
HwProbe ==
    /\ hw.pc = "probe"
    /\ \E answer \in ProbeAnswers :
          LET t == wait_turn(hw.attempts, hw.max_attempts, ProbeOk(answer))
          IN  hw' = [ hw EXCEPT !.attempts = t.attempts,
                                !.answers = Append(@, answer),
                                !.pc = CASE t.outcome = "ok" -> "returned_ok"
                                         [] t.outcome = "err" -> "returned_err"
                                         [] OTHER -> "sleep" ]
    /\ UNCHANGED << mItem, mSpec, mRes, eqA, eqB, eqRes, lp, mr, opNs >>
    /\ UNCHANGED clusterVars

\* line 451: tokio::time::sleep(interval).await
HwSleep ==
    /\ hw.pc = "sleep"
    /\ hw' = [ hw EXCEPT !.sleeps = @ + 1, !.pc = "probe" ]
    /\ UNCHANGED << mItem, mSpec, mRes, eqA, eqB, eqRes, lp, mr, opNs >>
    /\ UNCHANGED clusterVars

NextWait == HwProbe \/ HwSleep

SpecWait == InitWait /\ [][NextWait]_vars

\* A live, reconciled Server and one fresh Key whose spec.expires_at is a text
\* that OffsetDateTime::parse(.., Rfc3339) rejects (or is absent, for the
\* comparison); the engine holds a legacy table or a key with an expiry. Every
\* call of the reconcile is answered without error.
BadExpiries == { "tomorrow", "2030-02-30T00:00:00Z" }

LegacyExpiring == [ LegacyExact EXCEPT !.expires_at = Some("2030-01-01T00:00:00Z") ]

InitExpiry ==
    /\ \E e \in { None } \cup { Some(x) : x \in BadExpiries },
          t \in LegacyTables \cup { << LegacyExpiring >> } :
          InitAround(FALSE,
                     OneKey(FreshObj([ KeySpecA EXCEPT !.expires_at = e ],
                                     KeyStatusDefault)),
                     NoIdxs, ReadySecrets(1),
                     [ indexes |-> {}, keys |-> t, nextUid |-> FirstNewUid,
                       indexTasksFail |-> FALSE ])
    /\ log = EmptyLog

NextExpiry ==
    \/ \E k \in Keys :
          \/ KeyStart(k) \/ KeyGetMasterKey(k) \/ KeyServerIsDeleting(k)
          \/ KeyDeleteKey(k) \/ KeyRemoveFinalizer(k) \/ KeyEnsureFinalizer(k)
          \/ KeyExistingSecretKey(k) \/ KeyExistsByValue(k) \/ KeyFindMatching(k)
          \/ KeyFindRelaxed(k) \/ KeyCreate(k) \/ KeyStore(k) \/ KeyPatchStatus(k)
    \/ \E k \in Keys : UserDeleteKey(k)

SpecExpiry == InitExpiry /\ [][NextExpiry]_vars

\* The deletion of a Server among objects that are not its own: Keys and
\* Indexes of its namespace that refer to another Server, Keys and Indexes of
\* another namespace that refer to a Server of its name, and the mirrors of
\* those two Servers. The Server's own Key and Index may or may not exist.
ForeignMirrorLocs ==
    { << OperatorNs, MirrorSecretName(ServerNs, OtherServerName) >>,
      << OperatorNs, MirrorSecretName(OtherNs, ServerName) >> }

Finalized(obj) == [ obj EXCEPT !.fin = { FINALIZER } ]

InitFrame ==
    /\ \E own \in SUBSET { "k1", "i1" }, fz \in BOOLEAN, ownfz \in BOOLEAN :
          InitAround(TRUE,
                     [ k \in Keys |->
                         CASE k = "k1" ->
                                IF k \notin own
                                THEN AbsentObj(KeySpecA, KeyStatusDefault)
                                ELSE IF ownfz
                                THEN Finalized(FreshObj(KeySpecA, KeyStatusDefault))
                                ELSE FreshObj(KeySpecA, KeyStatusDefault)
                           [] k = "k2" ->
                                IF fz
                                THEN Finalized(FreshObj([ KeySpecB EXCEPT !.server_ref =
                                                            OtherServerName ],
                                                        KeyStatusDefault))
                                ELSE FreshObj([ KeySpecB EXCEPT !.server_ref =
                                                  OtherServerName ],
                                              KeyStatusDefault)
                           [] OTHER ->
                                IF fz
                                THEN Finalized(FreshObj(KeySpecA, KeyStatusDefault))
                                ELSE FreshObj(KeySpecA, KeyStatusDefault) ],
                     [ i \in Idxs |->
                         CASE i = "i1" ->
                                IF i \notin own
                                THEN AbsentObj(IdxSpecA, IdxStatusDefault)
                                ELSE IF ownfz
                                THEN Finalized(FreshObj(IdxSpecA, IdxStatusDefault))
                                ELSE FreshObj(IdxSpecA, IdxStatusDefault)
                           [] i = "i2" ->
                                IF fz
                                THEN Finalized(FreshObj([ IdxSpecA EXCEPT !.server_ref =
                                                            OtherServerName ],
                                                        IdxStatusDefault))
                                ELSE FreshObj([ IdxSpecA EXCEPT !.server_ref =
                                                  OtherServerName ],
                                              IdxStatusDefault)
                           [] OTHER ->
                                IF fz
                                THEN Finalized(FreshObj(IdxSpecA, IdxStatusDefault))
                                ELSE FreshObj(IdxSpecA, IdxStatusDefault) ],
                     [ loc \in SecretLocs |->
                         IF loc \in ForeignMirrorLocs
                         THEN Some(MkSecret(Some(GeneratedKey(2)), None, None))
                         ELSE ReadySecrets(1)[loc] ],
                     [ indexes |-> {}, keys |-> << >>, nextUid |-> FirstNewUid,
                       indexTasksFail |-> FALSE ])
    /\ log = EmptyLog

\* the deletion reconcile of the Server, with failing calls, while the user
\* may delete the Server's own Key and Index
NextFrame ==
    \/ SrvStart \/ SrvDeleteNext \/ SrvCallFails
    \/ UserDeleteKey("k1")
    \/ UserDeleteIndex("i1")

SpecFrame == InitFrame /\ [][NextFrame]_vars

\* ensure_operator_copy and delete_operator_copy on their own, for two Servers
\* with different (namespace, name) pairs; namespaces and names may hold "-".
\* store is the operator namespace: by secret name, the Server whose master
\* key the secret carries. op and by are history: the last call and the
\* Server it was made for.
MirrorNamespaces == { "a", "a-b", "x" }

MirrorNames == { "c", "b-c", "y" }

MirrorOf(s) == MirrorSecretName(s[1], s[2])

InitMirror ==
    /\ opNs = OperatorNs
    /\ IdleCluster
    /\ mItem = LegacyExact
    /\ mSpec = KeySpecA
    /\ mRes = [ exact |-> None, relaxed |-> None ]
    /\ InitEqIdle
    /\ hw = HwIdle
    /\ lp = LpIdle
    /\ \E s \in MirrorNamespaces \X MirrorNames, t \in MirrorNamespaces \X MirrorNames :
          /\ s # t
          /\ mr = [ a |-> s, b |-> t,
                    store |-> [ n \in { MirrorOf(s), MirrorOf(t) } |-> None ],
                    op |-> "none", by |-> << "", "" >> ]

\* ensure_operator_copy(op_ns, ns, name, key): server-side apply (force) of
\* the secret named format!("{}-{}-meili-master", ns, name) with the Server's key
MrEnsureOperatorCopy(s) ==
    /\ s \in { mr.a, mr.b }
    /\ mr' = [ mr EXCEPT !.store[MirrorOf(s)] = Some(s), !.op = "apply", !.by = s ]
    /\ UNCHANGED << mItem, mSpec, mRes, eqA, eqB, eqRes, hw, lp, opNs >>
    /\ UNCHANGED clusterVars

\* delete_operator_copy(op_ns, ns, name): delete of the secret of that name,
\* a 404 is Ok
MrDeleteOperatorCopy(s) ==
    /\ s \in { mr.a, mr.b }
    /\ mr' = [ mr EXCEPT !.store[MirrorOf(s)] = None, !.op = "delete", !.by = s ]
    /\ UNCHANGED << mItem, mSpec, mRes, eqA, eqB, eqRes, hw, lp, opNs >>
    /\ UNCHANGED clusterVars

NextMirror ==
    \E s \in MirrorNamespaces \X MirrorNames :
        MrEnsureOperatorCopy(s) \/ MrDeleteOperatorCopy(s)

SpecMirror == InitMirror /\ [][NextMirror]_vars

\* The cascade of a deleted Server against the reconciles of its children,
\* with every cluster and engine call answered without error: a reconciled
\* Server with one fresh Key or one fresh Index, which the user deletes.
InitCascade ==
    \/ InitFreshKey(FALSE, { << >> })
    \/ InitFreshIdx(FALSE, { << >> })

\* the reconcile of a Key whose calls all succeed
KeyCallsSucceed(k) ==
    \/ KeyStart(k) \/ KeyGetMasterKey(k) \/ KeyServerIsDeleting(k)
    \/ KeyDeleteKey(k) \/ KeyRemoveFinalizer(k) \/ KeyEnsureFinalizer(k)
    \/ KeyExistingSecretKey(k) \/ KeyExistsByValue(k) \/ KeyFindMatching(k)
    \/ KeyFindRelaxed(k) \/ KeyCreate(k) \/ KeyStore(k) \/ KeyPatchStatus(k)

\* the reconcile of an Index whose calls all succeed
IdxCallsSucceed(i) ==
    \/ IdxStart(i) \/ IdxServerIsDeleting(i) \/ IdxDelGetMasterKey(i)
    \/ IdxDeleteIndex(i) \/ IdxWaitDelete(i) \/ IdxRemoveFinalizer(i)
    \/ IdxEnsureFinalizer(i) \/ IdxGetMasterKey(i) \/ IdxCreateIndex(i)
    \/ IdxWaitCreate(i) \/ IdxFindAdmin(i) \/ IdxCreateKey(i) \/ IdxStore(i)
    \/ IdxPatchStatus(i)

\* the deletion reconcile of the Server, every child patch and child delete
\* answered Ok
SrvCascadeSucceeds ==
    \/ srv.del /\ SrvStart
    \/ SrvListKeys
    \/ SrvKeyPatch /\ srvRec'.pc = "key_delete"
    \/ /\ SrvKeyDelete
       /\ LET k == Head(srvRec.todo)
          IN  keys[k].exists => keys' = [ keys EXCEPT ![k] = Deleted(@, KeyStatusDefault) ]
    \/ SrvListIdxs
    \/ SrvIdxPatch /\ srvRec'.pc = "idx_delete"
    \/ /\ SrvIdxDelete
       /\ LET i == Head(srvRec.todo)
          IN  idxs[i].exists => idxs' = [ idxs EXCEPT ![i] = Deleted(@, IdxStatusDefault) ]
    \/ SrvDeleteOperatorCopy
    \/ SrvRemoveFinalizer

NextCascade ==
    \/ \E k \in Keys : KeyCallsSucceed(k)
    \/ \E i \in Idxs : IdxCallsSucceed(i)
    \/ SrvCascadeSucceeds
    \/ \E loc \in SecretLocs : GarbageCollect(loc)
    \/ UserDeleteServer
    \/ \E k \in Keys : UserDeleteKey(k)
    \/ \E i \in Idxs : UserDeleteIndex(i)

\* Each controller keeps taking the steps of its reconciles and requeues what
\* returned an error (error_policy), and the garbage collector keeps
\* collecting; the user is bound to nothing.
SpecCascade ==
    /\ InitCascade
    /\ [][NextCascade]_vars
    /\ \A k \in Keys : WF_vars(KeyCallsSucceed(k))
    /\ \A i \in Idxs : WF_vars(IdxCallsSucceed(i))
    /\ WF_vars(SrvCascadeSucceeds)
    /\ WF_vars(\E loc \in SecretLocs : GarbageCollect(loc))

\* list_all_keys_http on its own (key_controller.rs and index_controller.rs
\* hold one copy each), against an engine whose key table stays as it is.
\* The call is made with limit = 1000; the model also takes small limits, so
\* that a table of a few keys needs several pages.
ListLimit == 1000

MaxPage == 3

MaxListed == 5

\* GET /keys?offset=..&limit=..: the engine's page and the size of the table
EnginePage(table, offset, limit) ==
    [ results |-> SubSeq(table, offset + 1,
                         IF offset + limit < Len(table) THEN offset + limit
                         ELSE Len(table)),
      total |-> Len(table) ]

\* a loop that counts pages in place of results
list_turn_by_page(offset, out, page) ==
    [ offset |-> offset + 1,
      out |-> out \o page.results,
      done |-> offset + 1 >= page.total ]

\* one turn of the loop after the page has arrived (key_controller.rs
\* lines 340-344): offset += results.len(); out.extend(results);
\* break when offset >= total
list_turn(offset, out, page) ==
    [ offset |-> offset + Len(page.results),
      out |-> out \o page.results,
      done |-> offset + Len(page.results) >= page.total ]

\* the same in index_controller.rs, lines 258-262
index_list_turn(offset, out, page) ==
    [ offset |-> offset + Len(page.results),
      out |-> out \o page.results,
      done |-> offset + Len(page.results) >= page.total ]

InitList ==
    /\ opNs = OperatorNs
    /\ IdleCluster
    /\ mItem = LegacyExact
    /\ mSpec = KeySpecA
    /\ mRes = [ exact |-> None, relaxed |-> None ]
    /\ InitEqIdle
    /\ hw = HwIdle
    /\ mr = MrIdle
    /\ \E copy \in { "key", "index" }, n \in 0 .. MaxListed,
          limit \in (1 .. MaxPage) \cup { ListLimit } :
          lp = [ LpIdle EXCEPT !.pc = "request", !.copy = copy, !.limit = limit,
                               !.table = [ j \in 1 .. n |-> KeyValue(j) ] ]

\* the request of a page answered with the page, and the rest of the turn;
\* reqs and pages are history: the offsets and limits asked for, and the sizes
\* of the pages received
ListPageArrives(page, t) ==
    lp' = [ lp EXCEPT !.reqs = Append(@, [ offset |-> lp.offset, limit |-> lp.limit ]),
                      !.pages = Append(@, Len(page.results)),
                      !.offset = t.offset,
                      !.out = t.out,
                      !.pc = IF t.done THEN "ok" ELSE "request",
                      !.result = IF t.done THEN Some(t.out) ELSE None ]

\* key_controller.rs lines 326-344
LpKeyPage ==
    /\ lp.pc = "request"
    /\ lp.copy = "key"
    /\ LET page == EnginePage(lp.table, lp.offset, lp.limit)
       IN  ListPageArrives(page, list_turn(lp.offset, lp.out, page))
    /\ UNCHANGED << mItem, mSpec, mRes, eqA, eqB, eqRes, hw, mr, opNs >>
    /\ UNCHANGED clusterVars

\* index_controller.rs lines 244-262
LpIndexPage ==
    /\ lp.pc = "request"
    /\ lp.copy = "index"
    /\ LET page == EnginePage(lp.table, lp.offset, lp.limit)
       IN  ListPageArrives(page, index_list_turn(lp.offset, lp.out, page))
    /\ UNCHANGED << mItem, mSpec, mRes, eqA, eqB, eqRes, hw, mr, opNs >>
    /\ UNCHANGED clusterVars

\* send, error_for_status or json answers with an error: map_err(..)? returns
\* it and the pages collected so far are dropped
LpPageFails ==
    /\ lp.pc = "request"
    /\ lp' = [ lp EXCEPT !.reqs = Append(@, [ offset |-> lp.offset, limit |-> lp.limit ]),
                          !.out = << >>,
                          !.pc = "err",
                          !.result = None ]
    /\ UNCHANGED << mItem, mSpec, mRes, eqA, eqB, eqRes, hw, mr, opNs >>
    /\ UNCHANGED clusterVars

NextList == LpKeyPage \/ LpIndexPage \/ LpPageFails

\* every request is answered, in the end
SpecList == InitList /\ [][NextList]_vars /\ WF_vars(NextList)

-----------------------------------------------------------------------------
(* Properties.                                                              *)

\* the children that reference the Server and still exist
ChildrenOfServer(ks, is) ==
    { k \in Keys : /\ KeyNamespace(k) = ServerNs
                   /\ ks[k].exists
                   /\ ks[k].spec.server_ref = ServerName }
    \cup { i \in Idxs : /\ IdxNamespace(i) = ServerNs
                        /\ is[i].exists
                        /\ is[i].spec.server_ref = ServerName }

\* the step on which the Server's deletion reconcile clears the finalizer
SrvClearsFinalizer ==
    /\ srvRec.pc = "remove_finalizer"
    /\ srvRec'.pc = "idle"
    /\ srvRec'.result = "await"

\* C1: whenever the Server's deletion reconcile clears the Server's finalizer,
\* no Key or Index referencing the Server exists any more and the mirror
\* secret in the operator namespace is gone, whatever the cascade's patch and
\* delete calls answered.
C1_NothingLeftAtClearance ==
    [][ SrvClearsFinalizer =>
          /\ ChildrenOfServer(keys', idxs') = {}
          /\ secrets'[MirrorLoc] = None ]_vars

\* the step on which a live Server reconcile returns success
SrvSucceeds ==
    /\ srvRec.pc = "patch_status"
    /\ srvRec'.pc = "idle"
    /\ srvRec'.result = "requeue300"

\* a secret carrying a masterKey entry of 64 alphanumeric characters
HoldsMasterKey(sec) ==
    /\ sec # None
    /\ Unwrap(sec).masterKey # None
    /\ Unwrap(Unwrap(sec).masterKey).len = 64
    /\ Unwrap(Unwrap(sec).masterKey).alnum

\* C2: after every Server reconcile that returns success, the master-key
\* secret and its mirror both exist and carry the same masterKey value, a
\* string of 64 alphanumeric characters.
C2_MasterKeyAndMirrorAgree ==
    [][ SrvSucceeds =>
          /\ HoldsMasterKey(secrets'[MasterLoc])
          /\ HoldsMasterKey(secrets'[MirrorLoc])
          /\ Unwrap(secrets'[MasterLoc]).masterKey
               = Unwrap(secrets'[MirrorLoc]).masterKey ]_vars

\* the step on which a live Key reconcile returns success
KeySucceeds(k) ==
    /\ keyRec[k].pc = "patch_status"
    /\ keyRec'[k].pc = "idle"
    /\ keyRec'[k].result = "requeue1200"

\* the step on which a live Index reconcile returns success
IdxSucceeds(i) ==
    /\ idxRec[i].pc = "patch_status"
    /\ idxRec'[i].pc = "idle"
    /\ idxRec'[i].result = "requeue600"

\* a reconcile whose copy of the object holds the finalizer passes
\* ensure_finalizer without a patch: the object is left as it is
NoPatchWhenPresent ==
    /\ ( /\ srvRec.pc = "ensure_finalizer"
         /\ srvRec'.pc # "ensure_finalizer"
         /\ HasFinalizer(srvRec.copy.fin) )
          => (srv' = srv /\ ~srvRec'.patched)
    /\ \A k \in Keys :
          ( /\ keyRec[k].pc = "ensure_finalizer"
            /\ keyRec'[k].pc # "ensure_finalizer"
            /\ HasFinalizer(keyRec[k].copy.fin) )
             => (keys' = keys /\ ~keyRec'[k].patched)
    /\ \A i \in Idxs :
          ( /\ idxRec[i].pc = "ensure_finalizer"
            /\ idxRec'[i].pc # "ensure_finalizer"
            /\ HasFinalizer(idxRec[i].copy.fin) )
             => (idxs' = idxs /\ ~idxRec'[i].patched)

\* C3 as stated: for each of the three kinds, when a reconcile of an object
\* without deletionTimestamp returns success the object's finalizer list
\* contains the finalizer, and a reconcile that finds the finalizer present
\* issues no finalizer patch.
C3_FinalizerAfterSuccess ==
    [][ /\ SrvSucceeds => FINALIZER \in srv'.fin
        /\ \A k \in Keys : KeySucceeds(k) => FINALIZER \in keys'[k].fin
        /\ \A i \in Idxs : IdxSucceeds(i) => FINALIZER \in idxs'[i].fin
        /\ NoPatchWhenPresent ]_vars

\* C3, amended: the same, for a Key or Index only when the deletion cascade of
\* the referenced Server has not cleared the object's finalizers while that
\* reconcile was running.
C3_FinalizerAfterSuccessUnlessCascade ==
    [][ /\ SrvSucceeds => FINALIZER \in srv'.fin
        /\ \A k \in Keys :
              (KeySucceeds(k) /\ ~keyRec[k].cleared) => FINALIZER \in keys'[k].fin
        /\ \A i \in Idxs :
              (IdxSucceeds(i) /\ ~idxRec[i].cleared) => FINALIZER \in idxs'[i].fin
        /\ NoPatchWhenPresent ]_vars

\* a Key reconcile has returned success and the live Key holds the finalizer
C3_KeyFinalizedAfterSuccess ==
    \E k \in Keys :
        /\ keyRec[k].pc = "idle"
        /\ keyRec[k].result = "requeue1200"
        /\ keys[k].exists
        /\ ~keys[k].del
        /\ keys[k].fin = { FINALIZER }

TargetKeyValue(sec, spec) ==
    IF sec[KeyTargetLoc(spec)] = None THEN None
    ELSE Unwrap(sec[KeyTargetLoc(spec)]).key

\* reuse-from-secret applies: the target secret's value is a live remote key
ReuseApplies(k) ==
    /\ TargetKeyValue(secrets, keys[k].spec) # None
    /\ Unwrap(TargetKeyValue(secrets, keys[k].spec)) \in KeyValuesOf(engine.keys)

\* some remote key matches the Key's spec exactly
ExactApplies(k) ==
    \E n \in DOMAIN engine.keys : matches_spec(engine.keys[n], keys[k].spec)

\* some remote key matches the Key's spec with name and description ignored
RelaxedApplies(k) ==
    \E n \in DOMAIN engine.keys : matches_spec_relaxed(engine.keys[n], keys[k].spec)

\* the step on which a Key reconcile settles on a branch
KeyTakes(k, branch) ==
    /\ keyRec[k].pc # "store"
    /\ keyRec'[k].pc = "store"
    /\ keyRec'[k].branch = branch

\* the branches are tried in the order reuse, exact, relaxed, create and the
\* first that applies is taken
BranchOrder(k) ==
    /\ KeyTakes(k, "reuse") => ReuseApplies(k)
    /\ KeyTakes(k, "exact") => (~ReuseApplies(k) /\ ExactApplies(k))
    /\ KeyTakes(k, "relaxed") =>
          (~ReuseApplies(k) /\ ~ExactApplies(k) /\ RelaxedApplies(k))
    /\ KeyTakes(k, "create") =>
          (~ReuseApplies(k) /\ ~ExactApplies(k) /\ ~RelaxedApplies(k))

\* a reconcile that took the given branch returns success with the value it
\* chose in the target secret
StoresChosen(k, branch) ==
    (KeySucceeds(k) /\ keyRec[k].branch = branch) =>
        TargetKeyValue(secrets', keys[k].spec) = keyRec[k].chosen

\* C5: a Key reconcile tries reuse, exact adoption, relaxed adoption and create
\* in this order and takes the first that applies, so a key is created only
\* when none of the other three applies; and a reconcile that took the exact
\* branch ends with the exact match's value in the target secret.
C5_BranchOrderAndExactStored ==
    [][ \A k \in Keys : BranchOrder(k) /\ StoresChosen(k, "exact") ]_vars

\* the step on which key_exists_by_value_http answers
KeyExistsByValueAnswers(k) ==
    /\ keyRec[k].pc = "key_exists_by_value"
    /\ keyRec'[k].pc \notin { "key_exists_by_value", "idle" }

\* a step of the Key's reconcile after it settled on the given branch
KeyStepOnBranch(k, branch) ==
    /\ keyRec[k].pc \in { "store", "patch_status" }
    /\ keyRec[k].branch = branch
    /\ keyRec'[k] # keyRec[k]

\* C6: when the target secret holds a value that the engine's key listing
\* contains, the Key reconcile takes the reuse branch; from there it creates
\* no engine key and leaves the engine and the secret's value as they were,
\* and if it returns success it has patched status ready=true, message
\* "using key from existing Secret", uid null, and requeues after 1200 s.
C6_ReuseFromSecret ==
    [][ \A k \in Keys :
          /\ KeyExistsByValueAnswers(k) =>
                (Unwrap(keyRec[k].secret_key) \in KeyValuesOf(engine.keys)
                    <=> KeyTakes(k, "reuse"))
          /\ KeyStepOnBranch(k, "reuse") =>
                /\ keyRec[k].created = None
                /\ engine' = engine
                /\ TargetKeyValue(secrets', keys[k].spec) = keyRec[k].secret_key
          /\ (KeySucceeds(k) /\ keyRec[k].branch = "reuse") =>
                /\ keys'[k].status =
                      [ uid |-> None, ready |-> TRUE,
                        message |-> Some("using key from existing Secret") ]
                /\ keyRec'[k].result = "requeue1200" ]_vars

\* a Key reconcile has returned success from the reuse branch
C6_ReusedFromSecret ==
    \E k \in Keys :
        /\ keyRec[k].pc = "idle"
        /\ keyRec[k].branch = "reuse"
        /\ keyRec[k].result = "requeue1200"
        /\ keys[k].status.message = Some("using key from existing Secret")
        /\ TargetKeyValue(secrets, keys[k].spec) # None

\* the instant an expiry text denotes, when it is an RFC3339 timestamp
HasInstant(e) == e # None /\ Unwrap(e) \in DOMAIN Rfc3339Instant

\* the exact-match rule as the specification states it
ExactRule(item, spec) ==
    /\ spec.name = None \/ spec.name = item.name
    /\ spec.description = None \/ spec.description = item.description
    /\ SeqToSet(spec.actions) = SeqToSet(item.actions)
    /\ SeqToSet(spec.indexes) = SeqToSet(item.indexes)
    /\ \/ spec.expires_at = None
       \/ /\ HasInstant(spec.expires_at)
          /\ HasInstant(item.expires_at)
          /\ Rfc3339Instant[Unwrap(spec.expires_at)]
               = Rfc3339Instant[Unwrap(item.expires_at)]

\* C7: for every remote key item and every Key spec, matches_spec is true
\* exactly when the name and description rules hold, the action lists and the
\* index lists are equal as sets, and the spec's expiry is null or the remote
\* key has an expiry whose parsed instant equals the spec's parsed instant.
C7_MatchesSpecIsExactRule ==
    mRes.exact # None => (Unwrap(mRes.exact) <=> ExactRule(mItem, mSpec))

\* the step on which find_relaxed_matching_key_http answers
KeyFindRelaxedAnswers(k) ==
    /\ keyRec[k].pc = "find_relaxed"
    /\ keyRec'[k].pc \notin { "find_relaxed", "idle" }

\* C8: when no remote key matches the Key spec exactly but one matches with
\* name and description ignored, the Key reconcile takes the relaxed branch;
\* from there it creates no engine key, and when it returns success the target
\* secret holds that remote key's value and status is ready=true with message
\* "adopted similar existing key"; every remote key that matches exactly
\* matches relaxedly.
C8_RelaxedAdoption ==
    [][ \A k \in Keys :
          /\ KeyFindRelaxedAnswers(k) =>
                (RelaxedApplies(k) <=> KeyTakes(k, "relaxed"))
          /\ KeyTakes(k, "relaxed") => ~ExactApplies(k)
          /\ KeyStepOnBranch(k, "relaxed") =>
                (keyRec[k].created = None /\ engine' = engine)
          /\ StoresChosen(k, "relaxed")
          /\ (KeySucceeds(k) /\ keyRec[k].branch = "relaxed") =>
                keys'[k].status =
                   [ uid |-> None, ready |-> TRUE,
                     message |-> Some("adopted similar existing key") ]
          /\ \A n \in DOMAIN engine.keys :
                matches_spec(engine.keys[n], keys[k].spec)
                   => matches_spec_relaxed(engine.keys[n], keys[k].spec) ]_vars

\* the value of the `key` entry of the Index's admin-key secret, if any
AdminKeyValue(sec, spec) ==
    IF sec[IdxTargetLoc(spec)] = None THEN None
    ELSE Unwrap(sec[IdxTargetLoc(spec)]).key

\* the four conditions of admin-key adoption as the specification states them
AdminRule(item, uid) ==
    /\ "*" \in SeqToSet(item.actions)
    /\ SeqToSet(item.indexes) = { uid }
    /\ item.name = Some(AdminName(uid))
    /\ item.description = Some(AdminDesc(uid))

\* the step on which an Index reconcile settles on adopting or creating
IdxTakes(i, branch) ==
    /\ idxRec[i].pc # "store"
    /\ idxRec'[i].pc = "store"
    /\ idxRec'[i].branch = branch

\* the step on which find_matching_admin_key_http answers
IdxFindAdminAnswers(i) ==
    /\ idxRec[i].pc = "find_admin"
    /\ idxRec'[i].pc \notin { "find_admin", "idle" }

\* a step of the Index's reconcile after it settled on the given branch
IdxStepOnBranch(i, branch) ==
    /\ idxRec[i].pc \in { "store", "patch_status" }
    /\ idxRec[i].branch = branch
    /\ idxRec'[i] # idxRec[i]

\* C9: when the engine lists a key that meets the four admin conditions, the
\* Index reconcile adopts such a key and only such a key; from there it
\* creates no engine key, and when it returns success the target secret holds
\* the adopted key's value and status carries the message "adopted existing
\* admin key".
C9_AdminKeyAdoption ==
    [][ \A i \in Idxs :
          /\ IdxFindAdminAnswers(i) =>
                ((\E n \in DOMAIN engine.keys :
                      AdminRule(engine.keys[n], idxs[i].spec.uid))
                   <=> IdxTakes(i, "adopt"))
          /\ IdxTakes(i, "adopt") =>
                \E n \in DOMAIN engine.keys :
                    /\ AdminRule(engine.keys[n], idxs[i].spec.uid)
                    /\ idxRec'[i].chosen = Some(engine.keys[n].key)
          /\ IdxStepOnBranch(i, "adopt") => engine' = engine
          /\ (IdxSucceeds(i) /\ idxRec[i].branch = "adopt") =>
                /\ AdminKeyValue(secrets', idxs[i].spec) = idxRec[i].chosen
                /\ idxs'[i].status =
                      [ ready |-> TRUE,
                        message |-> Some("adopted existing admin key") ] ]_vars

\* C10: when a Ready Index is reconciled two more times in a row with nothing
\* else changing, the Index's finalizers and status, the admin-key secret and
\* the engine's index set and key table are the same after the second
\* reconcile as after the first.
C10_SecondReconcileChangesNothing ==
    \A i \in Idxs : idxRec[i].watch = "done" => idxRec[i].second = idxRec[i].first

\* C11: when a Key has been reconciled with success, its target secret is
\* then deleted and the Key is reconciled with success again, the engine's key
\* table being left alone by everyone else, and that second reconcile reuses
\* or adopts a key, the re-created secret holds the value the secret held
\* before it was deleted.
C11_SecretRoundTrip ==
    \A k \in Keys :
        ( /\ keyRec[k].trip = "done"
          /\ keyRec[k].branch \in { "reuse", "exact", "relaxed" } )
           => keyRec[k].after = keyRec[k].before

\* the rearrangements of a slice
PermutationsOf(a) ==
    { [ i \in DOMAIN a |-> a[p[i]] ] : p \in Permutations(DOMAIN a) }

\* C12: eq_unordered(a, b) is true exactly when a and b hold the same set of
\* distinct elements; it is reflexive and symmetric, its answer is the same
\* for every rearrangement of either argument and for an argument with an
\* element repeated; and the copy in the Index controller answers the same as
\* the copy in the Key controller.
C12_EqUnorderedComparesSets ==
    /\ eqRes.key # None =>
          /\ Unwrap(eqRes.key) <=> ({ eqA[i] : i \in DOMAIN eqA } = { eqB[i] : i \in DOMAIN eqB })
          /\ eq_unordered(eqA, eqA)
          /\ eq_unordered(eqB, eqA) = Unwrap(eqRes.key)
          /\ \A pa \in PermutationsOf(eqA), pb \in PermutationsOf(eqB) :
                eq_unordered(pa, pb) = Unwrap(eqRes.key)
          /\ \A i \in DOMAIN eqA :
                eq_unordered(Append(eqA, eqA[i]), eqB) = Unwrap(eqRes.key)
    /\ (eqRes.key # None /\ eqRes.index # None) => eqRes.index = eqRes.key

\* both copies have answered true for [1,2,2] and [2,1]
C12_DuplicatesIgnored ==
    /\ eqA = << 1, 2, 2 >>
    /\ eqB = << 2, 1 >>
    /\ eqRes = [ key |-> Some(TRUE), index |-> Some(TRUE) ]

\* the owner reference a secret in namespace ns must carry when it was
\* provisioned for the resource (kind, name), which lives in ServerNs
OwnerRule(sec, ns, kind, name) ==
    sec # None =>
        Unwrap(sec).owner = IF ns = ServerNs THEN Some(OwnerRef(kind, name)) ELSE None

\* C13: after every reconcile that returns success, each secret provisioned
\* for the reconciled resource carries one controller owner reference to that
\* resource (blockOwnerDeletion = true) when it lives in the resource's
\* namespace, and no owner reference when it lives in another namespace: the
\* master-key secret and its mirror for a Server, the target secret for a Key,
\* the admin-key secret for an Index.
C13_OwnerIffSameNamespace ==
    [][ /\ SrvSucceeds =>
              /\ OwnerRule(secrets'[MasterLoc], MasterLoc[1], "Server", ServerName)
              /\ OwnerRule(secrets'[MirrorLoc], MirrorLoc[1], "Server", ServerName)
        /\ \A k \in Keys :
              KeySucceeds(k) =>
                 OwnerRule(secrets'[KeyTargetLoc(keys[k].spec)],
                           KeyTargetLoc(keys[k].spec)[1], "Key", k)
        /\ \A i \in Idxs :
              (IdxSucceeds(i) /\ WantsAdminKey(idxs[i].spec)) =>
                 OwnerRule(secrets'[IdxTargetLoc(idxs[i].spec)],
                           IdxTargetLoc(idxs[i].spec)[1], "Index", i) ]_vars

\* a step that changes the Server's status to ready
SrvBecomesReady ==
    /\ srv'.status # srv.status
    /\ srv'.status.ready

\* the step on which the health wait of a Server reconcile gives up
SrvWaitGivesUp ==
    /\ srvRec.pc = "health"
    /\ srvRec'.pc = "idle"

\* C14: the Server's status is patched to ready=true, with the endpoint, only
\* by a reconcile one of whose health probes answered 2xx; the probe that
\* answers 2xx ends the wait at once; and when the wait gives up, no probe of
\* the reconcile has answered 2xx, the reconcile returns an error and the
\* Server's status is left as it was.
C14_ReadyOnlyAfterHealthy ==
    [][ /\ SrvBecomesReady =>
              /\ SrvSucceeds
              /\ srvRec.probe2xx
              /\ srv'.status.endpoint =
                    Some(Endpoint(ServerName, ServerNs, srv.spec.port))
        /\ SrvSucceeds => srvRec.probe2xx
        /\ (srvRec.pc = "health" /\ srvRec'.probe2xx) => srvRec'.pc = "patch_status"
        /\ (srvRec.pc = "health" /\ srvRec'.pc = "health") => ~srvRec'.probe2xx
        /\ SrvWaitGivesUp =>
              /\ ~srvRec.probe2xx
              /\ srvRec'.result = "error"
              /\ srv' = srv ]_vars

\* a Server reconcile has returned success after a health probe answered 2xx
C14_ReadyAfterProbe ==
    /\ srvRec.pc = "idle"
    /\ srvRec.result = "requeue300"
    /\ srv.status.ready
    /\ srv.status.endpoint # None

\* C15: a health wait that returns the error has sent exactly max_attempts
\* probes, none of them answered 2xx, and has slept only between probes.
C15_AtMostMaxAttemptsProbes ==
    hw.pc = "returned_err" =>
        /\ Len(hw.answers) = hw.max_attempts
        /\ \A n \in DOMAIN hw.answers : ~ProbeOk(hw.answers[n])
        /\ hw.sleeps = Len(hw.answers) - 1

\* a step of the reconcile of a Key that it found with deletionTimestamp
KeyDelStep(k) ==
    /\ keyRec[k].copy.del
    /\ keyRec'[k].pc # keyRec[k].pc

\* the engine's key table with the key of the given uid, and without it after
KeyDeletedOnEngine(uid) ==
    /\ \E n \in DOMAIN engine.keys : engine.keys[n].uid = uid
    /\ engine' = [ engine EXCEPT !.keys = RemoveUid(@, uid) ]

\* C16: in the reconcile of a Key with deletionTimestamp, the engine is asked
\* to delete the key exactly when the referenced Server exists without
\* deletionTimestamp and status.uid is set; the engine is changed by that call
\* only; the finalizer is cleared only after the call, when it was due, has
\* removed the key; the Key's status is not patched; and the reconcile
\* returns await-change when it has cleared the finalizer, an error otherwise.
C16_KeyDeletionPath ==
    [][ \A k \in Keys :
          KeyDelStep(k) =>
             /\ keyRec[k].pc \in { "get_master_key", "server_is_deleting",
                                   "delete_key", "remove_finalizer" }
             /\ (keyRec[k].pc = "server_is_deleting" /\ keyRec'[k].pc # "idle") =>
                   /\ keyRec'[k].pc \in { "delete_key", "remove_finalizer" }
                   /\ keyRec'[k].pc = "delete_key" <=>
                         ( /\ srv.exists
                           /\ ~srv.del
                           /\ keyRec[k].copy.uid # None )
             /\ engine' # engine =>
                   /\ keyRec[k].pc = "delete_key"
                   /\ KeyDeletedOnEngine(Unwrap(keyRec[k].copy.uid))
             /\ (keyRec'[k].pc = "remove_finalizer") =>
                   \/ keyRec[k].pc = "server_is_deleting"
                   \/ /\ keyRec[k].pc = "delete_key"
                      /\ KeyDeletedOnEngine(Unwrap(keyRec[k].copy.uid))
             /\ keys'[k] # keys[k] =>
                   /\ keyRec[k].pc = "remove_finalizer"
                   /\ keys'[k] = WithFinalizers(keys[k], {}, KeyStatusDefault)
             /\ keyRec'[k].pc = "idle" =>
                   /\ keyRec'[k].result \in { "await", "error" }
                   /\ keyRec'[k].result = "await" =>
                         (keyRec[k].pc = "remove_finalizer" /\ keys'[k].fin = {}) ]_vars

\* a Key that the user deleted under a live Server is gone after its
\* reconcile has deleted its key on the engine
C16_KeyDeletedWithEngineKey ==
    \E k \in Keys :
        /\ ~keys[k].exists
        /\ k \in log.deletes
        /\ keyRec[k].pc = "idle"
        /\ keyRec[k].result = "await"
        /\ srv.exists
        /\ ~srv.del

\* a step of the reconcile of an Index that it found with deletionTimestamp
IdxDelStep(i) ==
    /\ idxRec[i].copy.del
    /\ idxRec'[i].pc # idxRec[i].pc

\* C17: in the reconcile of an Index with deletionTimestamp, the master key
\* is read and DELETE /indexes/{uid} issued exactly when the referenced
\* Server exists without deletionTimestamp and deleteOnFinalize is true; the
\* finalizer is then cleared only after the wait for the delete task;
\* otherwise the reconcile goes straight to the clearing of the finalizer,
\* with no read of the master-key secret and no call to the engine; the
\* reconcile returns await-change when it has cleared the finalizer, an error
\* otherwise.
C17_IndexDeletionPath ==
    [][ \A i \in Idxs :
          IdxDelStep(i) =>
             /\ idxRec[i].pc \in { "server_is_deleting", "del_get_master_key",
                                   "delete_index", "wait_delete", "remove_finalizer" }
             /\ (idxRec[i].pc = "server_is_deleting" /\ idxRec'[i].pc # "idle") =>
                   /\ idxRec'[i].pc \in { "del_get_master_key", "remove_finalizer" }
                   /\ idxRec'[i].pc = "del_get_master_key" <=>
                         ( /\ srv.exists
                           /\ ~srv.del
                           /\ idxs[i].spec.delete_on_finalize )
             /\ idxRec'[i].pc = "del_get_master_key" => idxRec[i].pc = "server_is_deleting"
             /\ idxRec'[i].pc = "delete_index" => idxRec[i].pc = "del_get_master_key"
             /\ idxRec'[i].pc = "wait_delete" =>
                   /\ idxRec[i].pc = "delete_index"
                   /\ engine'.indexes = engine.indexes \ { idxs[i].spec.uid }
             /\ idxRec'[i].pc = "remove_finalizer" =>
                   idxRec[i].pc \in { "server_is_deleting", "wait_delete" }
             /\ engine' # engine => idxRec[i].pc = "delete_index"
             /\ secrets' = secrets
             /\ idxs'[i] # idxs[i] =>
                   /\ idxRec[i].pc = "remove_finalizer"
                   /\ idxs'[i] = WithFinalizers(idxs[i], {}, IdxStatusDefault)
             /\ idxRec'[i].pc = "idle" =>
                   /\ idxRec'[i].result \in { "await", "error" }
                   /\ idxRec'[i].result = "await" =>
                         (idxRec[i].pc = "remove_finalizer" /\ idxs'[i].fin = {}) ]_vars

\* an Index with deleteOnFinalize that the user deleted under a live Server is
\* gone after its reconcile has deleted the index on the engine
C17_IndexDeletedOnEngine ==
    \E i \in Idxs :
        /\ ~idxs[i].exists
        /\ idxs[i].spec.delete_on_finalize
        /\ i \in log.deletes
        /\ idxs[i].spec.uid \notin engine.indexes
        /\ idxRec[i].pc = "idle"
        /\ idxRec[i].result = "await"
        /\ srv.exists
        /\ ~srv.del

\* an Index without deleteOnFinalize is gone and the engine still holds it
C17_IndexKeptOnEngine ==
    \E i \in Idxs :
        /\ ~idxs[i].exists
        /\ ~idxs[i].spec.delete_on_finalize
        /\ idxs[i].spec.uid \in engine.indexes
        /\ idxRec[i].result = "await"
        /\ srv.exists
        /\ ~srv.del

\* C18: when a reconcile of a live Key returns success, the secret at
\* {spec.secretNamespace, spec.secretName} has an entry `key` with the value
\* of the engine key that the reconcile selected (reused, adopted or created),
\* whatever was at the target before.
C18_KeySecretHoldsSelected ==
    [][ \A k \in Keys :
          KeySucceeds(k) =>
             /\ keyRec[k].chosen # None
             /\ TargetKeyValue(secrets', keys[k].spec) = keyRec[k].chosen ]_vars

\* C19: when a reconcile of an Index with adminKey.create=true returns
\* success, the secret with the resolved namespace and name has an entry `key`
\* with the value of the admin key that the reconcile adopted or created,
\* whatever was at the target before.
C19_AdminSecretHoldsSelected ==
    [][ \A i \in Idxs :
          (IdxSucceeds(i) /\ WantsAdminKey(idxs[i].spec)) =>
             /\ idxRec[i].chosen # None
             /\ AdminKeyValue(secrets', idxs[i].spec) = idxRec[i].chosen ]_vars

\* two engine keys of the same profile: action set, index set and expiry
SameProfile(a, b) ==
    /\ SeqToSet(a.actions) = SeqToSet(b.actions)
    /\ SeqToSet(a.indexes) = SeqToSet(b.indexes)
    /\ a.expires_at = b.expires_at

\* the engine keys that Key reconciles created
OperatorCreated == { n \in DOMAIN engine.keys : engine.keys[n].uid >= FirstNewUid }

\* C20: whatever the interleaving of the reconciles of distinct Keys that
\* declare the same profile on the same engine, the engine never holds two
\* operator-created keys of the same profile.
C20_NoDuplicateProfiles ==
    \A m, n \in OperatorCreated :
        m # n => ~SameProfile(engine.keys[m], engine.keys[n])

\* the step on which a reconcile returns an error
SrvFails == srvRec.pc # "idle" /\ srvRec'.pc = "idle" /\ srvRec'.result = "error"

\* a step of the Server's reconcile
SrvStep == srvRec' # srvRec /\ srvRec.pc # "idle"

KeyFails(k) ==
    keyRec[k].pc # "idle" /\ keyRec'[k].pc = "idle" /\ keyRec'[k].result = "error"

IdxFails(i) ==
    idxRec[i].pc # "idle" /\ idxRec'[i].pc = "idle" /\ idxRec'[i].result = "error"

\* C21: the step on which a reconcile returns an error leaves the status of
\* its resource as it was, and the status of a resource that stays in the
\* cluster changes only on the step on which its own reconcile returns
\* success: the status patch is the last step that can fail, so the status
\* after a failed reconcile is the status before it.
C21_ErrorLeavesStatus ==
    [][ /\ SrvFails => srv'.status = srv.status
        /\ (srv'.exists /\ srv'.status # srv.status) => SrvSucceeds
        /\ \A k \in Keys :
              /\ KeyFails(k) => keys'[k].status = keys[k].status
              /\ (keys'[k].exists /\ keys'[k].status # keys[k].status)
                    => KeySucceeds(k)
        /\ \A i \in Idxs :
              /\ IdxFails(i) => idxs'[i].status = idxs[i].status
              /\ (idxs'[i].exists /\ idxs'[i].status # idxs[i].status)
                    => IdxSucceeds(i) ]_vars

\* a Key that was Ready keeps its status after a reconcile that failed
C21_ReadyKeyAfterFailure ==
    \E k \in Keys :
        /\ keys[k].exists
        /\ keys[k].status.ready
        /\ keyRec[k].pc = "idle"
        /\ keyRec[k].result = "error"

\* the master-key secret of the Server is absent, has no data or lacks the
\* masterKey entry
MasterKeyMissing(server) ==
    \/ secrets[<< ServerNs, MasterSecretName(server) >>] = None
    \/ Unwrap(secrets[<< ServerNs, MasterSecretName(server) >>]).masterKey = None

\* C22: a reconcile of a live Key or Index that reads the master-key secret
\* while it is absent or lacks the masterKey entry returns an error on that
\* step, to be requeued after 60 seconds; up to and including that step the
\* reconcile calls no engine endpoint, writes no secret and patches no status
\* (the Key reads the secret first, the Index after attaching its finalizer).
C22_NoMasterKeyIsAnError ==
    [][ /\ \A k \in Keys :
              /\ (keyRec[k].pc = "idle" /\ keyRec'[k].pc # "idle")
                    => keyRec'[k].pc = "get_master_key"
              /\ ( /\ keyRec[k].pc = "get_master_key"
                    /\ keyRec'[k].pc # "get_master_key"
                    /\ ~keyRec[k].copy.del
                    /\ MasterKeyMissing(keys[k].spec.server_ref) )
                    => /\ KeyFails(k)
                       /\ KeyActionOf(keyRec'[k].result) = RequeueAfter(60)
                       /\ engine' = engine
                       /\ secrets' = secrets
                       /\ keys' = keys
        /\ \A i \in Idxs :
              /\ (idxRec[i].pc = "idle" /\ idxRec'[i].pc # "idle" /\ ~idxs[i].del)
                    => idxRec'[i].pc = "ensure_finalizer"
              /\ (idxRec[i].pc = "ensure_finalizer" /\ idxRec'[i].pc # "ensure_finalizer")
                    => /\ idxRec'[i].pc \in { "get_master_key", "idle" }
                       /\ engine' = engine
                       /\ secrets' = secrets
                       /\ idxs'[i].status = idxs[i].status
              /\ ( /\ idxRec[i].pc = "get_master_key"
                    /\ idxRec'[i].pc # "get_master_key"
                    /\ MasterKeyMissing(idxs[i].spec.server_ref) )
                    => /\ IdxFails(i)
                       /\ IdxActionOf(idxRec'[i].result) = RequeueAfter(60)
                       /\ engine' = engine
                       /\ secrets' = secrets
                       /\ idxs' = idxs ]_vars

\* a Key whose reconcile has failed while the master-key secret holds no
\* masterKey entry: nothing on the engine, no secret of its own, no status
C22_KeyFailedWithoutMasterKey ==
    /\ MasterKeyMissing(ServerName)
    /\ \E k \in Keys :
          /\ keys[k].exists
          /\ keyRec[k].pc = "idle"
          /\ keyRec[k].result = "error"
          /\ keys[k].status = KeyStatusDefault
          /\ secrets[KeyTargetLoc(keys[k].spec)] = None
    /\ engine.keys = << >>

\* the same for an Index, which has attached its finalizer before
C22_FailedWithoutMasterKey ==
    /\ MasterKeyMissing(ServerName)
    /\ \E i \in Idxs :
          /\ idxs[i].exists
          /\ idxRec[i].pc = "idle"
          /\ idxRec[i].result = "error"
          /\ FINALIZER \in idxs[i].fin
          /\ idxs[i].status = IdxStatusDefault
          /\ secrets[IdxTargetLoc(idxs[i].spec)] = None
    /\ engine.keys = << >>
    /\ engine.indexes = {}

\* C23: a create task that ends with "index already exists" lets the Index
\* reconcile go on to the admin-key step and to status ready=true; and when a
\* reconcile patches ready=true, the engine holds an index with spec.uid.
C23_ReadyOnlyWithIndex ==
    [][ \A i \in Idxs :
          /\ ( /\ idxRec[i].pc = "wait_create"
                /\ idxRec[i].task = "index_already_exists"
                /\ idxRec'[i].pc \notin { "wait_create", "idle" } )
                => idxRec'[i].pc = IF WantsAdminKey(idxs[i].spec)
                                   THEN "find_admin" ELSE "patch_status"
          /\ IdxSucceeds(i) =>
                /\ idxs'[i].status.ready
                /\ idxs[i].spec.uid \in engine'.indexes ]_vars

\* the first half alone: the "already exists" outcome is passed over
C23_AlreadyExistsAccepted ==
    [][ \A i \in Idxs :
          ( /\ idxRec[i].pc = "wait_create"
            /\ idxRec[i].task = "index_already_exists"
            /\ idxRec'[i].pc \notin { "wait_create", "idle" } )
            => idxRec'[i].pc = IF WantsAdminKey(idxs[i].spec)
                               THEN "find_admin" ELSE "patch_status" ]_vars

\* a step of the reconcile of a Key or Index
KeyStep(k) == keyRec'[k] # keyRec[k] /\ keyRec[k].pc # "idle"

IdxStep(i) == idxRec'[i] # idxRec[i] /\ idxRec[i].pc # "idle"

\* the rules of the state machine that do not depend on what the engine holds:
\* status changes only to ready=true on the success of the object's own
\* reconcile, never back; a reconcile that saw deletionTimestamp patches no
\* status and attaches no finalizer; an object goes only without finalizers
KeyLifecycle(k) ==
    /\ (keys'[k].exists /\ keys'[k].status # keys[k].status) =>
          /\ KeySucceeds(k)
          /\ keys'[k].status.ready
          /\ keyRec[k].branch \in { "reuse", "exact", "relaxed", "create" }
          /\ keyRec[k].chosen # None
    /\ (keys[k].status.ready /\ keys'[k].exists) => keys'[k].status.ready
    /\ (KeyStep(k) /\ keyRec[k].copy.del) =>
          /\ keys'[k].exists => keys'[k].status = keys[k].status
          /\ keys'[k].fin \subseteq keys[k].fin
    /\ (keys[k].exists /\ ~keys'[k].exists) =>
          (keys[k].fin = {} \/ (keys[k].del /\ keys'[k].fin = {}))

IdxLifecycle(i) ==
    /\ (idxs'[i].exists /\ idxs'[i].status # idxs[i].status) =>
          /\ IdxSucceeds(i)
          /\ idxs'[i].status.ready
          /\ WantsAdminKey(idxs[i].spec) =>
                (idxRec[i].branch \in { "adopt", "create" } /\ idxRec[i].chosen # None)
    /\ (idxs[i].status.ready /\ idxs'[i].exists) => idxs'[i].status.ready
    /\ (IdxStep(i) /\ idxRec[i].copy.del) =>
          /\ idxs'[i].exists => idxs'[i].status = idxs[i].status
          /\ idxs'[i].fin \subseteq idxs[i].fin
    /\ (idxs[i].exists /\ ~idxs'[i].exists) =>
          (idxs[i].fin = {} \/ (idxs[i].del /\ idxs'[i].fin = {}))

\* C24: Index and Key go Pending -> Ready -> Deleting -> gone: status.ready
\* is only ever written as true, by a reconcile that has provisioned, adopted
\* or reused (for an Index: the engine holds the index when ready is
\* written); a reconcile that saw deletionTimestamp patches no status and
\* attaches no finalizer; the object disappears only without finalizers.
C24_StateMachine ==
    [][ /\ \A k \in Keys : KeyLifecycle(k)
        /\ \A i \in Idxs :
              /\ IdxLifecycle(i)
              /\ (idxs'[i].exists /\ idxs'[i].status # idxs[i].status)
                    => idxs[i].spec.uid \in engine'.indexes ]_vars

\* the state machine without the requirement that the index is there
C24_Lifecycle ==
    [][ /\ \A k \in Keys : KeyLifecycle(k)
        /\ \A i \in Idxs : IdxLifecycle(i) ]_vars

\* the step on which a reconcile returns
SrvReturns == srvRec.pc # "idle" /\ srvRec'.pc = "idle"

KeyReturns(k) == keyRec[k].pc # "idle" /\ keyRec'[k].pc = "idle"

IdxReturns(i) == idxRec[i].pc # "idle" /\ idxRec'[i].pc = "idle"

\* C25: a reconcile that fails is requeued after 30 s (Server) or 60 s (Index,
\* Key); one that succeeds on a live object after 300 s (Server), 600 s
\* (Index) or 1200 s (Key, on each of its four branches); one that succeeds
\* on the deletion path awaits the next change, with no timed requeue.
C25_RequeuePolicy ==
    [][ /\ SrvReturns =>
              SrvActionOf(srvRec'.result) =
                 IF SrvFails THEN RequeueAfter(30)
                 ELSE IF srvRec.copy.del THEN AwaitChange
                 ELSE RequeueAfter(300)
        /\ \A i \in Idxs :
              IdxReturns(i) =>
                 IdxActionOf(idxRec'[i].result) =
                    IF IdxFails(i) THEN RequeueAfter(60)
                    ELSE IF idxRec[i].copy.del THEN AwaitChange
                    ELSE RequeueAfter(600)
        /\ \A k \in Keys :
              KeyReturns(k) =>
                 /\ KeyActionOf(keyRec'[k].result) =
                       IF KeyFails(k) THEN RequeueAfter(60)
                       ELSE IF keyRec[k].copy.del THEN AwaitChange
                       ELSE RequeueAfter(1200)
                 /\ (~KeyFails(k) /\ ~keyRec[k].copy.del) =>
                       keyRec[k].branch \in { "reuse", "exact", "relaxed", "create" } ]_vars

\* a Server requeued after 300 s next to a Key requeued after 1200 s on the
\* relaxed branch
C25_ServerAndKeyRequeued ==
    /\ srvRec.pc = "idle"
    /\ srvRec.result = "requeue300"
    /\ SrvActionOf(srvRec.result) = RequeueAfter(300)
    /\ \E k \in Keys :
          /\ keyRec[k].pc = "idle"
          /\ keyRec[k].result = "requeue1200"
          /\ keyRec[k].branch = "relaxed"
          /\ KeyActionOf(keyRec[k].result) = RequeueAfter(1200)

\* the other ways out: the Key branches, the Index, the errors, the deletions
C25_KeyReuse == \E k \in Keys : keyRec[k].result = "requeue1200" /\ keyRec[k].branch = "reuse"

C25_KeyExact == \E k \in Keys : keyRec[k].result = "requeue1200" /\ keyRec[k].branch = "exact"

C25_KeyCreate == \E k \in Keys : keyRec[k].result = "requeue1200" /\ keyRec[k].branch = "create"

C25_KeyError == \E k \in Keys : keyRec[k].result = "error"

C25_KeyAwait == \E k \in Keys : keyRec[k].result = "await"

C25_IdxRequeued == \E i \in Idxs : idxRec[i].result = "requeue600"

C25_IdxError == \E i \in Idxs : idxRec[i].result = "error"

C25_IdxAwait == \E i \in Idxs : idxRec[i].result = "await"

C25_SrvError == srvRec.result = "error"

C25_SrvAwait == srvRec.result = "await"

\* the order of the calls of a Server reconcile on a live Server
SrvOrder ==
    { << "ensure_finalizer", "mk_get" >>, << "mk_get", "mk_create" >>,
      << "mk_get", "operator_copy" >>, << "mk_create", "operator_copy" >>,
      << "operator_copy", "service" >>, << "service", "statefulset" >>,
      << "statefulset", "health" >>, << "health", "patch_status" >>,
      << "patch_status", "idle" >> }

\* C26: a Server reconcile on a live Server attaches the finalizer, ensures
\* the master-key secret, applies the mirror, the service, the stateful
\* workload, waits for health and patches status, in this order; the workload
\* is applied only with the master-key secret ensured; and when status becomes
\* ready=true with the endpoint http://<name>.<ns>.svc.cluster.local:<port>,
\* the finalizer, the master-key secret, the mirror with the key of this
\* reconcile, the service <name> on spec.port and the workload <name> with
\* spec.replicas replicas are in the cluster.
C26_ServerHappyPath ==
    [][ /\ (~srvRec.copy.del /\ srvRec.pc # "idle" /\ srvRec'.pc # srvRec.pc) =>
              /\ ~SrvFails => << srvRec.pc, srvRec'.pc >> \in SrvOrder
              /\ srvRec.pc = "operator_copy" =>
                    (SrvFails \/ secrets'[MirrorLoc] # None)
              /\ srvRec.pc = "service" =>
                    (SrvFails \/ svc' = Some(build_service(ServerName, srv.spec.port)))
              /\ srvRec.pc = "statefulset" =>
                    \/ SrvFails
                    \/ /\ sts' = Some(build_statefulset(ServerName, srv.spec))
                       /\ srvRec.mk # None
                       /\ secrets[MasterLoc] # None
        /\ sts' # sts => (srvRec.pc = "statefulset" \/ sts' = None)
        /\ SrvSucceeds =>
              /\ srv'.status = [ ready |-> TRUE,
                                 endpoint |-> Some(Endpoint(ServerName, ServerNs,
                                                            srv.spec.port)),
                                 message |-> None ]
              /\ FINALIZER \in srv.fin
              /\ secrets[MasterLoc] # None
              /\ secrets[MirrorLoc] # None
              /\ Unwrap(secrets[MirrorLoc]).masterKey = srvRec.mk
              /\ svc # None
              /\ Unwrap(svc).name = ServerName
              /\ Unwrap(svc).port = srv.spec.port
              /\ sts # None
              /\ Unwrap(sts).name = ServerName
              /\ Unwrap(sts).replicas = srv.spec.replicas ]_vars

\* a Server with a port and replicas of its own is ready, with its service and
\* workload
C26_ReadyOnOwnPort ==
    /\ srv.exists
    /\ srv.spec = ServerSpecB
    /\ srv.status.ready
    /\ srv.status.endpoint = Some(Endpoint(ServerName, ServerNs, ServerSpecB.port))
    /\ srvRec.result = "requeue300"
    /\ svc = Some(build_service(ServerName, ServerSpecB.port))
    /\ sts # None
    /\ Unwrap(sts).replicas = ServerSpecB.replicas

\* the secret at the location has a masterKey entry
HasMasterKeyEntry(sec) == sec # None /\ Unwrap(sec).masterKey # None

\* C29: while the master-key secret exists with a masterKey entry, no step of
\* a Server reconcile changes it; a reconcile that reads it takes the stored
\* value and generates nothing, and the mirror it then applies carries the
\* stored value; a key is generated only with the secret absent or lacking
\* the entry.
C29_MasterKeyStable ==
    [][ /\ (SrvStep /\ HasMasterKeyEntry(secrets[MasterLoc]))
              => secrets'[MasterLoc] = secrets[MasterLoc]
        /\ (srvRec.pc = "mk_get" /\ srvRec'.pc \notin { "mk_get", "idle" }
                /\ HasMasterKeyEntry(secrets[MasterLoc]))
              => /\ srvRec'.pc = "operator_copy"
                 /\ srvRec'.mk = Unwrap(secrets[MasterLoc]).masterKey
        /\ (srvRec.pc = "mk_create" /\ srvRec'.pc = "operator_copy")
              => ~HasMasterKeyEntry(secrets[MasterLoc])
        /\ (srvRec.pc = "operator_copy" /\ srvRec'.pc = "service"
                /\ HasMasterKeyEntry(secrets[MasterLoc]))
              => /\ secrets'[MirrorLoc] # None
                 /\ Unwrap(secrets'[MirrorLoc]).masterKey
                      = Unwrap(secrets[MasterLoc]).masterKey ]_vars

\* a Server that is Ready is reconciled again and has taken the stored key,
\* the one its mirror already carries
C29_StoredKeyTakenAgain ==
    /\ srv.exists
    /\ srv.status.ready
    /\ srvRec.pc = "operator_copy"
    /\ HasMasterKeyEntry(secrets[MasterLoc])
    /\ srvRec.mk = Unwrap(secrets[MasterLoc]).masterKey
    /\ secrets[MirrorLoc] # None
    /\ Unwrap(secrets[MirrorLoc]).masterKey = srvRec.mk

\* the Keys and Indexes that are the Server's own: in its namespace, with
\* serverRef its name
OwnKeys ==
    { k \in Keys : KeyNamespace(k) = ServerNs /\ keys[k].spec.server_ref = ServerName }

OwnIdxs ==
    { i \in Idxs : IdxNamespace(i) = ServerNs /\ idxs[i].spec.server_ref = ServerName }

\* C31: the Server's deletion reconcile lists for its cascade exactly the
\* existing Keys and Indexes of its namespace whose serverRef is its name, and
\* no step of it changes a Key or Index with another serverRef or of another
\* namespace, or the mirror secret of another Server.
C31_CascadeTouchesOwnChildren ==
    [][ /\ (srvRec.pc = "list_keys" /\ srvRec'.pc \in { "key_patch", "list_idxs" })
              => SeqToSet(srvRec'.todo) = { k \in OwnKeys : keys[k].exists }
        /\ (srvRec.pc = "list_idxs"
                /\ srvRec'.pc \in { "idx_patch", "delete_operator_copy" })
              => SeqToSet(srvRec'.todo) = { i \in OwnIdxs : idxs[i].exists }
        /\ SrvStep =>
              /\ \A k \in Keys \ OwnKeys : keys'[k] = keys[k]
              /\ \A i \in Idxs \ OwnIdxs : idxs'[i] = idxs[i]
              /\ \A loc \in ForeignMirrorLocs : secrets'[loc] = secrets[loc] ]_vars

\* the Server and its Key and Index are gone, its mirror too; the Keys and
\* Indexes of other Servers are there with their finalizers, and so are the
\* mirrors of the other Servers
C31_OwnChildrenGoneOthersKept ==
    /\ ~srv.exists
    /\ srvRec.result = "await"
    /\ log.userDeleted = {}
    /\ secrets[MirrorLoc] = None
    /\ \A loc \in ForeignMirrorLocs : secrets[loc] # None
    /\ \A k \in { "k2", "k3" } : keys[k].exists /\ ~keys[k].del /\ FINALIZER \in keys[k].fin
    /\ \A i \in { "i2", "i3" } : idxs[i].exists /\ ~idxs[i].del /\ FINALIZER \in idxs[i].fin
    /\ ~keys["k1"].exists
    /\ ~idxs["i1"].exists
    /\ keys["k1"].spec = KeySpecA

\* the Server's deletion reconcile is at a call whose answer the caller drops
\* (let _ = remove_finals_and_delete(..))
AtChildCall == srvRec.pc \in { "key_patch", "key_delete", "idx_patch", "idx_delete" }

\* C32: in the Server's deletion reconcile the finalizer is cleared only on
\* the step after the mirror's delete, which leaves no mirror, and that
\* delete comes only after both child listings; a reconcile that returns an
\* error leaves the Server and its finalizer as they were and is requeued
\* after 30 seconds; no answer to a child patch or delete, a 404 included,
\* makes the reconcile return.
C32_DeletionOrder ==
    [][ /\ (srvRec'.pc = "remove_finalizer" /\ srvRec.pc # "remove_finalizer")
              => /\ srvRec.pc = "delete_operator_copy"
                 /\ secrets'[MirrorLoc] = None
        /\ (srvRec'.pc = "delete_operator_copy" /\ srvRec.pc # "delete_operator_copy")
              => srvRec.pc \in { "list_idxs", "idx_patch", "idx_delete" }
        /\ (srvRec'.pc \in { "list_idxs" } /\ srvRec.pc # "list_idxs")
              => srvRec.pc \in { "list_keys", "key_patch", "key_delete" }
        /\ (srv.del /\ SrvStep /\ srv' # srv)
              => /\ srvRec.pc = "remove_finalizer"
                 /\ srvRec'.result = "await"
                 /\ ~srv'.exists
        /\ (srvRec.copy.del /\ SrvFails)
              => /\ srv' = srv
                 /\ SrvActionOf(srvRec'.result) = RequeueAfter(30)
                 /\ ~AtChildCall
        /\ (AtChildCall /\ SrvStep) => srvRec'.pc # "idle" ]_vars

\* a deletion reconcile that failed at the mirror's delete: the Server keeps
\* its finalizer and the mirror is there
C32_FailedDeletionKeepsFinalizer ==
    /\ srv.exists
    /\ srv.del
    /\ FINALIZER \in srv.fin
    /\ srvRec.pc = "idle"
    /\ srvRec.result = "error"
    /\ secrets[MirrorLoc] # None
    /\ \A k \in OwnKeys : ~keys[k].exists
    /\ \A i \in OwnIdxs : ~idxs[i].exists

\* the Server is gone and so is its master-key secret
ServerAndSecretGone == ~srv.exists /\ secrets[MasterLoc] = None

\* the Index reconcile's deletion path with the Server and its secret gone:
\* the Server counts as deleting and the finalizer is cleared
IdxOrphanReleased(i) ==
    /\ idxRec[i].pc = "server_is_deleting"
          => (idxRec'[i].pc = "remove_finalizer" /\ engine' = engine)
    /\ (idxRec[i].pc = "remove_finalizer" /\ idxs[i].exists)
          => /\ idxRec'[i].pc = "idle"
             /\ idxRec'[i].result = "await"
             /\ ~idxs'[i].exists

\* the same for the Key reconcile, whose first step is not to fail for want
\* of the master-key secret
KeyOrphanReleased(k) ==
    /\ keyRec[k].pc = "get_master_key" => ~KeyReturns(k)
    /\ keyRec[k].pc = "server_is_deleting"
          => (keyRec'[k].pc = "remove_finalizer" /\ engine' = engine)
    /\ (keyRec[k].pc = "remove_finalizer" /\ keys[k].exists)
          => /\ keyRec'[k].pc = "idle"
             /\ keyRec'[k].result = "await"
             /\ ~keys'[k].exists

\* C33: the reconcile of a deleting Key or Index whose Server does not exist,
\* the master-key secret gone with it, treats the Server as deleting: it
\* clears the finalizer and returns awaitChange, does not fail on the missing
\* master-key secret, and calls the engine at no step.
C33_MissingServerIsDeleting ==
    [][ /\ \A k \in Keys :
              (keyRec[k].copy.del /\ ServerAndSecretGone /\ KeyStep(k))
                 => KeyOrphanReleased(k)
        /\ \A i \in Idxs :
              (idxRec[i].copy.del /\ ServerAndSecretGone /\ IdxStep(i))
                 => IdxOrphanReleased(i) ]_vars

\* the Index half of C33 on its own
C33_IndexSide ==
    [][ \A i \in Idxs :
          (idxRec[i].copy.del /\ ServerAndSecretGone /\ IdxStep(i))
             => IdxOrphanReleased(i) ]_vars

\* a deleting Index about to be released after its Server and the secret
\* went away
C33_IndexReleased ==
    /\ ServerAndSecretGone
    /\ \E i \in Idxs : /\ idxRec[i].copy.del
                        /\ idxRec[i].pc = "remove_finalizer"
                        /\ idxs[i].exists

\* A Key on a live Server whose calls all succeed, while the user may delete
\* the Key and somebody may delete keys on the engine.
InitGone == InitFreshKey(FALSE, { << >> })

NextGone ==
    \/ \E k \in Keys : KeyCallsSucceed(k)
    \/ \E k \in Keys : UserDeleteKey(k)
    \/ ExtDeleteEngineKey

\* the controller runs every reconcile it is due, requeues included
SpecGone ==
    /\ InitGone
    /\ [][NextGone]_vars
    /\ \A k \in Keys : WF_vars(KeyCallsSucceed(k))

\* C34: on a live Server the deletion of a Key always completes: a Key with
\* a deletionTimestamp is in the end removed, also when the engine no longer
\* holds the key of status.uid.
C34_KeyDeletionCompletes ==
    \A k \in Keys :
       (keys[k].exists /\ keys[k].del /\ srv.exists /\ ~srv.del)
          ~> ~keys[k].exists

\* a deletion reconcile failed on the DELETE of a key the engine does not hold
C34_DeleteOfMissingKeyFailed ==
    \E k \in Keys :
       /\ keys[k].exists /\ keys[k].del
       /\ keys[k].status.uid # None
       /\ \A n \in DOMAIN engine.keys : engine.keys[n].uid # Unwrap(keys[k].status.uid)
       /\ keyRec[k].pc = "idle"
       /\ keyRec[k].result = "error"

\* C35: once a create wrote status.uid, a later successful reconcile that
\* reuses the secret's key or adopts a key leaves status.uid as it was, so
\* that the deletion still has the uid for DELETE /keys/{uid}.
C35_UidKept ==
    [][ \A k \in Keys :
          ( /\ keys[k].status.uid # None
            /\ KeyReturns(k)
            /\ keyRec'[k].result = "requeue1200"
            /\ keyRec[k].branch # "create" )
             => keys'[k].status.uid = keys[k].status.uid ]_vars

\* a Key deleted after its status.uid was lost: the finalizer is cleared
\* with no DELETE issued and the created key stays on the engine
C35_CreatedKeyLeftOnEngine ==
    \E k \in Keys :
       /\ ~keys[k].exists
       /\ k \notin log.deletes
       /\ keyRec[k].pc = "idle"
       /\ keyRec[k].result = "await"
       /\ \E n \in DOMAIN engine.keys : engine.keys[n].uid = FirstNewUid

\* a finalizer that some other controller put on an object
OtherFinalizer == "example.com/hold"

\* Objects that carry another controller's finalizer: a new Server on its
\* own, or a ready Server, deleting or not, with one Key or one Index.
InitFinal ==
    /\ InitMatchIdle
    /\ \/ /\ srv = [ FreshObj(ServerSpecA, SrvStatusDefault) EXCEPT
                       !.fin = { OtherFinalizer } ]
          /\ keys = NoKeys
          /\ idxs = NoIdxs
          /\ secrets = [ loc \in SecretLocs |-> None ]
          /\ svc = None
          /\ sts = None
       \/ /\ \E deleting \in BOOLEAN :
                srv = [ ReadyServer EXCEPT !.del = deleting,
                                           !.fin = { FINALIZER, OtherFinalizer } ]
          /\ \/ /\ keys = OneKey([ FreshObj(KeySpecA, KeyStatusDefault) EXCEPT
                                     !.fin = { OtherFinalizer } ])
                /\ idxs = NoIdxs
             \/ /\ keys = NoKeys
                /\ idxs = OneIdx([ FreshObj(IdxSpecA, IdxStatusDefault) EXCEPT
                                     !.fin = { OtherFinalizer } ])
          /\ secrets = ReadySecrets(1)
          /\ svc = Some(build_service(ServerName, ServerSpecA.port))
          /\ sts = Some(build_statefulset(ServerName, ServerSpecA))
    /\ engine = [ indexes |-> {}, keys |-> << >>, nextUid |-> FirstNewUid,
                  indexTasksFail |-> FALSE ]
    /\ srvRec = SrvRecIdle
    /\ keyRec = [ k \in Keys |-> KeyRecIdle ]
    /\ idxRec = [ i \in Idxs |-> IdxRecIdle ]
    /\ log = EmptyLog

\* the three reconcilers with every call succeeding, and the user's deletes
NextFinal ==
    \/ \E k \in Keys : KeyCallsSucceed(k)
    \/ \E i \in Idxs : IdxCallsSucceed(i)
    \/ ~srv.del /\ SrvStart
    \/ SrvEnsureFinalizer \/ SrvMasterKeyGet \/ SrvMasterKeyCreate
    \/ SrvEnsureOperatorCopy \/ SrvEnsureService \/ SrvEnsureStatefulset
    \/ SrvHealthProbe \/ SrvPatchStatus
    \/ SrvCascadeSucceeds
    \/ UserDeleteServer
    \/ \E k \in Keys : UserDeleteKey(k)
    \/ \E i \in Idxs : UserDeleteIndex(i)

SpecFinal == InitFinal /\ [][NextFinal]_vars

\* the object keeps the other controller's finalizer over the step
KeepsOtherFinalizer(obj, next) ==
    (obj.exists /\ OtherFinalizer \in obj.fin)
       => (next.exists /\ OtherFinalizer \in next.fin)

\* C36: the operator adds and removes only its own finalizer: no step of a
\* reconcile, attaching or clearing, on the deletion path or in the Server's
\* cascade, takes another controller's finalizer from a Server, Key or Index.
C36_OnlyOwnFinalizer ==
    [][ /\ KeepsOtherFinalizer(srv, srv')
        /\ \A k \in Keys : KeepsOtherFinalizer(keys[k], keys'[k])
        /\ \A i \in Idxs : KeepsOtherFinalizer(idxs[i], idxs'[i]) ]_vars

\* attaching alone, on a Key and an Index: the other finalizer stays
C36_ChildAttachKeeps ==
    [][ /\ \A k \in Keys : (keyRec[k].pc = "ensure_finalizer" /\ keyRec'[k].pc # "ensure_finalizer")
                               => KeepsOtherFinalizer(keys[k], keys'[k])
        /\ \A i \in Idxs : (idxRec[i].pc = "ensure_finalizer" /\ idxRec'[i].pc # "ensure_finalizer")
                               => KeepsOtherFinalizer(idxs[i], idxs'[i]) ]_vars

\* a deleted Key removed although the other controller's finalizer held it
C36_KeyGoneDespiteOtherFinalizer ==
    \E k \in Keys : /\ ~keys[k].exists
                    /\ keyRec[k].pc = "idle"
                    /\ keyRec[k].result = "await"

\* key_controller.rs:35, index_controller.rs:42 and :54: the port written
\* into the endpoint the Key and Index reconcilers dial
ChildPort == 7700

\* key_controller.rs:35: format!("http://{}.{}.svc.cluster.local:7700", server, ns)
key_endpoint(server, ns) == Endpoint(server, ns, ChildPort)

\* index_controller.rs:42, 54: the same string
index_endpoint(server, ns) == Endpoint(server, ns, ChildPort)

\* the steps of the Key reconcile that call the engine
KeyEnginePcs == { "key_exists_by_value", "find_matching", "find_relaxed",
                  "create", "delete_key" }

\* the steps of the Index reconcile that call the engine
IdxEnginePcs == { "create_index", "wait_create", "find_admin", "create_key",
                  "delete_index", "wait_delete" }

\* A new Server with the default port or another, and one Key or one Index
\* that refers to it.
InitPort ==
    /\ InitMatchIdle
    /\ \E sp \in { ServerSpecA, ServerSpecB } : srv = FreshObj(sp, SrvStatusDefault)
    /\ \/ /\ keys = OneKey(FreshObj(KeySpecA, KeyStatusDefault))
          /\ idxs = NoIdxs
       \/ /\ keys = NoKeys
          /\ idxs = OneIdx(FreshObj(IdxSpecA, IdxStatusDefault))
    /\ secrets = [ loc \in SecretLocs |-> None ]
    /\ svc = None
    /\ sts = None
    /\ engine = [ indexes |-> {}, keys |-> << >>, nextUid |-> FirstNewUid,
                  indexTasksFail |-> FALSE ]
    /\ srvRec = SrvRecIdle
    /\ keyRec = [ k \in Keys |-> KeyRecIdle ]
    /\ idxRec = [ i \in Idxs |-> IdxRecIdle ]
    /\ log = EmptyLog

\* the Server's reconcile and the child's, every call succeeding, while the
\* user may delete the child
NextPort ==
    \/ \E k \in Keys : KeyCallsSucceed(k)
    \/ \E i \in Idxs : IdxCallsSucceed(i)
    \/ SrvStart \/ SrvEnsureFinalizer \/ SrvMasterKeyGet \/ SrvMasterKeyCreate
    \/ SrvEnsureOperatorCopy \/ SrvEnsureService \/ SrvEnsureStatefulset
    \/ SrvHealthProbe \/ SrvPatchStatus
    \/ \E k \in Keys : UserDeleteKey(k)
    \/ \E i \in Idxs : UserDeleteIndex(i)

SpecPort == InitPort /\ [][NextPort]_vars

\* C38: whatever spec.port the Server has, every engine call of a Key or
\* Index reconcile goes to the endpoint the Server has published in its
\* status.
C38_ChildrenDialPublishedEndpoint ==
    [][ /\ \A k \in Keys :
              ( /\ keyRec[k].pc \in KeyEnginePcs
                /\ keyRec'[k].pc # keyRec[k].pc
                /\ srv.status.endpoint # None )
                 => key_endpoint(keys[k].spec.server_ref, KeyNamespace(k))
                       = Unwrap(srv.status.endpoint)
        /\ \A i \in Idxs :
              ( /\ idxRec[i].pc \in IdxEnginePcs
                /\ idxRec'[i].pc # idxRec[i].pc
                /\ srv.status.endpoint # None )
                 => index_endpoint(idxs[i].spec.server_ref, IdxNamespace(i))
                       = Unwrap(srv.status.endpoint) ]_vars

\* the same for Servers on the default port only
C38_DefaultPortDialed ==
    [][ srv.spec.port = DefaultPort =>
          /\ \A k \in Keys :
                ( /\ keyRec[k].pc \in KeyEnginePcs
                  /\ keyRec'[k].pc # keyRec[k].pc
                  /\ srv.status.endpoint # None )
                   => key_endpoint(keys[k].spec.server_ref, KeyNamespace(k))
                         = Unwrap(srv.status.endpoint)
          /\ \A i \in Idxs :
                ( /\ idxRec[i].pc \in IdxEnginePcs
                  /\ idxRec'[i].pc # idxRec[i].pc
                  /\ srv.status.endpoint # None )
                   => index_endpoint(idxs[i].spec.server_ref, IdxNamespace(i))
                         = Unwrap(srv.status.endpoint) ]_vars

\* the user deletes the secret the Key's value is stored in
UserDeleteTargetSecret(k) ==
    /\ keys[k].exists
    /\ secrets[KeyTargetLoc(keys[k].spec)] # None
    /\ secrets' = [ secrets EXCEPT ![KeyTargetLoc(keys[k].spec)] = None ]
    /\ UNCHANGED << srv, keys, idxs, svc, sts, engine, srvRec, keyRec, idxRec, log >>
    /\ UNCHANGED matchVars

\* a key value that no key of the engine has
StrangerValue == KeyValue(FirstNewUid + MaxCreated)

\* One Key on a ready Server with an empty engine; its expiresAt is absent
\* or does not parse, its target secret is absent or holds a value the
\* engine does not know.
InitPost ==
    /\ \E e \in { None } \cup { Some(x) : x \in BadExpiries },
          sec \in { None,
                    Some(KeySecretToCreate("k1", ServerNs, KeySpecA.secret_namespace,
                                           StrangerValue)) } :
          InitAround(FALSE,
                     OneKey(FreshObj([ KeySpecA EXCEPT !.expires_at = e ],
                                     KeyStatusDefault)),
                     NoIdxs,
                     [ ReadySecrets(1) EXCEPT ![KeyTargetLoc(KeySpecA)] = sec ],
                     [ indexes |-> {}, keys |-> << >>, nextUid |-> FirstNewUid,
                       indexTasksFail |-> FALSE ])
    /\ log = EmptyLog

\* the Key's reconciles, any call of which may fail, while the user may
\* delete the target secret and, in the end, the Key; the Key's spec is
\* left alone and nobody else touches the engine's keys
NextPost ==
    \/ \E k \in Keys : KeyCallsSucceed(k)
    \/ \E k \in Keys : KeyCallFails(k)
    \/ \E k \in Keys : UserDeleteTargetSecret(k)
    \/ \E k \in Keys : UserDeleteKey(k)

SpecPost == InitPost /\ [][NextPost]_vars

\* the engine holds a key that a POST /keys of the operator made
HoldsCreatedKey ==
    \E n \in DOMAIN engine.keys : engine.keys[n].uid >= FirstNewUid

\* a step that issues POST /keys
PostsKey == engine'.nextUid # engine.nextUid

\* C39: the reconciles of one unchanged Key issue no POST /keys while a key
\* made by an earlier POST of that Key is on the engine.
C39_NoSecondPost ==
    [][ PostsKey => ~HoldsCreatedKey ]_vars

\* the same for a Key whose expiresAt is absent
C39_NoSecondPostWithoutExpiry ==
    [][ (PostsKey /\ keys["k1"].spec.expires_at = None) => ~HoldsCreatedKey ]_vars

\* two keys made for the one Key
C39_TwoKeysForOneKey ==
    /\ Len(engine.keys) = 2
    /\ \A n \in DOMAIN engine.keys : engine.keys[n].uid >= FirstNewUid

\* the other of the two Servers
OtherServer(s) == IF s = mr.a THEN mr.b ELSE mr.a

\* C31 (mirrors): the deletion of a Server leaves the mirror secret of
\* another Server as it was.
C31_DeletionKeepsOtherMirrors ==
    [][ mr'.op = "delete" =>
          mr'.store[MirrorOf(OtherServer(mr'.by))]
            = mr.store[MirrorOf(OtherServer(mr'.by))] ]_vars

\* C37: for two Servers with different (namespace, name) pairs, applying or
\* deleting the mirror of one leaves the mirror of the other as it was (their
\* mirror names differ).
C37_MirrorsApart ==
    [][ mr'.op \in { "apply", "delete" } =>
          mr'.store[MirrorOf(OtherServer(mr'.by))]
            = mr.store[MirrorOf(OtherServer(mr'.by))] ]_vars

\* the mirror names of the two Servers differ
C37_MirrorNamesDiffer == mr.op # "none" => MirrorOf(mr.a) # MirrorOf(mr.b)

\* the mirror names of two Servers whose namespaces and names hold no "-" differ
C37_PlainNamesDiffer ==
    (mr.op # "none" /\ \A s \in { mr.a, mr.b } : s \in { "a", "x" } \X { "c", "y" })
        => MirrorOf(mr.a) # MirrorOf(mr.b)

\* the Server a child refers to is being deleted or is gone
ServerGoing == srv.del \/ ~srv.exists

\* C30: with every call answered without error and the reconciles retried
\* fairly, once the Server is being deleted every Key and every Index that
\* refers to it is eventually removed, whatever the interleaving of the
\* cascade with the children's reconciles.
C30_CascadeResolves ==
    /\ \A k \in Keys : (keys[k].exists /\ ServerGoing) ~> ~keys[k].exists
    /\ \A i \in Idxs : (idxs[i].exists /\ ServerGoing) ~> ~idxs[i].exists

\* the same for the Indexes alone
C30_IndexesResolve ==
    \A i \in Idxs : (idxs[i].exists /\ ServerGoing) ~> ~idxs[i].exists

\* a Key with deletionTimestamp and the finalizer whose Server and master-key
\* secret are gone
C30_KeyLeftBehind ==
    \E k \in Keys :
        /\ keys[k].exists
        /\ keys[k].del
        /\ FINALIZER \in keys[k].fin
        /\ ~srv.exists
        /\ secrets[MasterLoc] = None

\* spec.expires_at is present and is not RFC3339
BadExpiry(spec) ==
    spec.expires_at # None /\ parse_rfc3339_opt(spec.expires_at) = None

\* C28: with every call answered, a reconcile of a live Key whose
\* spec.expires_at is not RFC3339 returns no error; no remote key is adopted
\* for it, so it takes the create branch (or, later, reuses its own secret);
\* on the create branch the key it creates is the key a spec without expiresAt
\* would give (no expiry), and it ends with that key's value in the target
\* secret and status ready=true, uid the created key's uid, no message.
C28_BadExpiryIgnored ==
    [][ \A k \in Keys :
          BadExpiry(keys[k].spec) =>
            /\ KeyFails(k) => (keys[k].del \/ ~keys[k].exists)
            /\ (KeyStep(k) /\ keyRec'[k].pc = "store") =>
                  (KeyTakes(k, "create") \/ KeyTakes(k, "reuse"))
            /\ KeyTakes(k, "create") =>
                  /\ engine' =
                        EngineAddKey(engine,
                                     BuiltKey(k, [ keys[k].spec EXCEPT !.expires_at = None ],
                                              engine.nextUid))
                  /\ \A n \in DOMAIN engine'.keys :
                        engine'.keys[n].uid = engine.nextUid
                            => engine'.keys[n].expires_at = None
            /\ (KeySucceeds(k) /\ keyRec[k].branch = "create") =>
                  /\ TargetKeyValue(secrets', keys[k].spec) = keyRec[k].chosen
                  /\ keyRec[k].chosen \in
                        { Some(engine.keys[n].key) : n \in DOMAIN engine.keys }
                  /\ keys'[k].status =
                        [ uid |-> keyRec[k].created, ready |-> TRUE, message |-> None ]
                  /\ keyRec[k].created # None ]_vars

\* a Key with an expiresAt that is not RFC3339 is Ready with a uid, its
\* secret written and its engine key without expiry
C28_ReadyWithBadExpiry ==
    \E k \in Keys :
        /\ keys[k].exists
        /\ BadExpiry(keys[k].spec)
        /\ keys[k].status.ready
        /\ keys[k].status.uid # None
        /\ keyRec[k].pc = "idle"
        /\ keyRec[k].result = "requeue1200"
        /\ TargetKeyValue(secrets, keys[k].spec) # None
        /\ \E n \in DOMAIN engine.keys :
              /\ Some(engine.keys[n].uid) = keys[k].status.uid
              /\ engine.keys[n].expires_at = None

\* the number of results in the first n pages received
RECURSIVE ResultsIn(_, _)
ResultsIn(pages, n) == IF n = 0 THEN 0 ELSE ResultsIn(pages, n - 1) + pages[n]

ListingRule ==
    /\ \A j \in DOMAIN lp.reqs :
          /\ lp.reqs[j].limit = lp.limit
          /\ lp.reqs[j].offset = ResultsIn(lp.pages, j - 1)
          /\ j > 1 => ResultsIn(lp.pages, j - 1) < Len(lp.table)
    /\ lp.pc = "ok" =>
          /\ lp.result = Some(lp.table)
          /\ ResultsIn(lp.pages, Len(lp.pages)) >= Len(lp.table)
    /\ lp.pc = "err" => lp.result = None
    /\ lp.pc = "request" => lp.result = None

\* C27: against a key table that stays as it is, list_all_keys_http ends; it
\* asks for each page at the offset that is the number of results received
\* so far, with the limit of the call; it asks for no page once that number
\* has reached the reported total; when it returns Ok it returns the table,
\* every key once; and an error on a page makes it return the error with no
\* results.
C27_PaginatedListing ==
    /\ []ListingRule
    /\ <>(lp.pc \in { "ok", "err" })

\* a table of five keys listed in three pages of two
C27_ListedInThreePages ==
    /\ lp.pc = "ok"
    /\ Len(lp.table) = 5
    /\ lp.limit = 2
    /\ lp.pages = << 2, 2, 1 >>
    /\ lp.result = Some(lp.table)

=============================================================================
